---- MODULE Spec2Model ----
(***************************************************************************)
(* A model of the Jira client layer of mcp-atlassian:                      *)
(*   jira/config.py       JiraConfig.from_env, is_cloud                    *)
(*   jira/http_client.py  APIv2Adapter.send, normalize_api_path            *)
(*   jira/client.py       JiraClient.__init__, the cookie session, the     *)
(*                        authentication validation, get_paged             *)
(*   jira/comments.py     the comment operations                           *)
(*   jira/mappers.py      the user, issue and comment field mappers        *)
(*   utils/ssl.py         configure_ssl_verification                       *)
(*                                                                         *)
(* Python values are modelled as follows.  A str | None value is a string, *)
(* None being the reserved string None; the truth value of such a value is *)
(* Truthy (None and the empty string are false).  A dict is a function     *)
(* from its keys to its values.  An Optional result is a set with at most  *)
(* one element.  Objects that the code copies or could write to live in a  *)
(* heap: a function from addresses to dicts; a reference is an address.    *)
(***************************************************************************)
EXTENDS Integers, Sequences, FiniteSets, TLC

VARIABLES
    env,        \* the environment read by JiraConfig.from_env
    res,        \* the outcome of JiraConfig.from_env: pending, or raised / value
    url,        \* a request URL, as a sequence of URL pieces
    force_v2,   \* the force_v2 flag of the adapter / of normalize_api_path
    sent,       \* the URL APIv2Adapter.send passes on, <<>> before the call
    normalized, \* the URL normalize_api_path returns, <<>> before the call
    pc,         \* the client: "new", "ready" (constructed) or "failed"
    auth,       \* the credentials the client's HTTP session was built with
    cookie_session, \* JiraClient._cookie_session
    jar,        \* the JSESSIONID in jira._session.cookies, None when absent
    last,       \* the last call on the client: what it was given and did
    ppc,        \* get_paged: "idle", "running", "returned" or "raised"
    paged_raised,   \* the exception get_paged raised, "none" if none
    method,     \* get_paged's method, "get" or "post"
    params_or_json, \* the caller's parameter object: {} for None, else {dict}
    passed,     \* the caller's parameter object as it was when passed
    current_data,   \* get_paged's current_data
    aliased,    \* current_data is the caller's object itself
    all_results,    \* get_paged's all_results
    requests,   \* the requests get_paged has issued, in order, as sent
    responses,  \* the responses to them, in order
    returned,   \* what get_paged returned: {} for nothing, else {list}
    heap,       \* the objects of a mapper call: address -> dict
    input,      \* what the mapper is given: its kind and its argument
    mapped,     \* the mapper call made: its heap before, and its result
    configured, \* what is_auth_configured returned: {} before the call
    session,    \* the HTTP session: its cert, its verify and its adapters
    tls,        \* the last call that configured the session
    wire,       \* the last request sent through the session
    callers,    \* the callers sharing the client: where each is in its call
    overlapped  \* a call has begun while another was in progress

envVars == <<env, res>>
urlVars == <<url, force_v2, sent, normalized>>
clientVars == <<pc, auth, cookie_session, jar, last>>
pagedVars ==
    <<ppc, paged_raised, method, params_or_json, passed, current_data, aliased, all_results,
      requests, responses, returned>>
mapperVars == <<heap, input, mapped>>
authVars == <<configured>>
tlsVars == <<session, tls, wire>>
callerVars == <<callers, overlapped>>
vars ==
    <<envVars, urlVars, clientVars, pagedVars, mapperVars, authVars, tlsVars,
      callerVars>>

None == "<None>"

\* bool(v) of a str | None value
Truthy(v) == v # None /\ v # ""

(***************************************************************************)
(* jira/config.py                                                          *)
(***************************************************************************)

\* The URLs of the model: a Cloud host and a self-hosted one.
CloudUrl == "https://acme.atlassian.net"
ServerUrl == "https://jira.corp.example"

\* utils/urls.is_atlassian_cloud_url: true for the Atlassian Cloud hosts,
\* false for anything else and for a missing URL.
is_atlassian_cloud_url(u) == u = CloudUrl

\* str.lower() on the values JIRA_MODE and JIRA_AUTH take in the model
lower(s) ==
    CASE s = "SERVER_6X" -> "server_6x"
      [] s = "Cookie" -> "cookie"
      [] s = "TRUE" -> "true"
      [] s = "Yes" -> "yes"
      [] OTHER -> s

\* os.getenv(name, default)
getenv_default(v, default) == IF v = None THEN default ELSE v

\* The OAuth bundle get_oauth_config_from_env returns: no bundle, an
\* OAuthConfig or a BYOAccessTokenOAuthConfig.  Each field is the truth
\* value of the corresponding attribute.
NoOAuth ==
    [type |-> "None", client_id |-> FALSE, client_secret |-> FALSE,
     redirect_uri |-> FALSE, scope |-> FALSE, cloud_id |-> FALSE,
     access_token |-> FALSE]

OAuthConfigs ==
    [type : {"OAuthConfig"}, client_id : BOOLEAN, client_secret : BOOLEAN,
     redirect_uri : BOOLEAN, scope : BOOLEAN, cloud_id : BOOLEAN,
     access_token : {FALSE}]

BYOAccessTokenOAuthConfigs ==
    [type : {"BYOAccessTokenOAuthConfig"}, client_id : {FALSE},
     client_secret : {FALSE}, redirect_uri : {FALSE}, scope : {FALSE},
     cloud_id : BOOLEAN, access_token : BOOLEAN]

\* bool(oauth_config)
HasOAuth(o) == o.type # "None"

\* The result of a call that either raises or returns a value.
Raise(kind, msg) == [raised |-> kind, msg |-> msg, value |-> {}]
Return(v) == [raised |-> "none", msg |-> "", value |-> {v}]
Pending == [raised |-> "pending", msg |-> "", value |-> {}]

\* JiraConfig.from_env, lines 189-228: the choice of auth_type.  The result
\* is the auth type, or the message of the ValueError raised.
AuthTypes == {"basic", "pat", "oauth"}
MsgCloud == "Cloud authentication requires JIRA_USERNAME and JIRA_API_TOKEN, or OAuth configuration"
Msg6x == "Server 6.x authentication requires JIRA_USERNAME and JIRA_PASSWORD (or JIRA_API_TOKEN)"
MsgServer == "Server/Data Center authentication requires JIRA_PERSONAL_TOKEN or JIRA_USERNAME and JIRA_API_TOKEN"
MsgUrl == "Missing required JIRA_URL environment variable"

\* resolve_server_6x accepting the password only, not the API token
resolve_server_6x_password_only(e) ==
    IF Truthy(e.JIRA_USERNAME) /\ Truthy(e.JIRA_PASSWORD) THEN "basic" ELSE Msg6x

resolve_server_6x(e) ==
    IF Truthy(e.JIRA_USERNAME) /\ (Truthy(e.JIRA_PASSWORD) \/ Truthy(e.JIRA_API_TOKEN))
    THEN "basic"
    ELSE Msg6x

\* resolve_cloud trying basic auth before the OAuth bundle
resolve_cloud_basic_first(e) ==
    IF Truthy(e.JIRA_USERNAME) /\ Truthy(e.JIRA_API_TOKEN) THEN "basic"
    ELSE IF HasOAuth(e.oauth_config) THEN "oauth"
    ELSE MsgCloud

resolve_cloud(e) ==
    IF HasOAuth(e.oauth_config) THEN "oauth"
    ELSE IF Truthy(e.JIRA_USERNAME) /\ Truthy(e.JIRA_API_TOKEN) THEN "basic"
    ELSE MsgCloud

\* resolve_server_dc with the OAuth bundle taking priority over the PAT
resolve_server_dc_oauth_first(e) ==
    IF HasOAuth(e.oauth_config) THEN "oauth"
    ELSE IF Truthy(e.JIRA_PERSONAL_TOKEN) THEN "pat"
    ELSE IF Truthy(e.JIRA_USERNAME) /\ Truthy(e.JIRA_API_TOKEN) THEN "basic"
    ELSE MsgServer

resolve_server_dc(e) ==
    IF Truthy(e.JIRA_PERSONAL_TOKEN) THEN "pat"
    ELSE IF HasOAuth(e.oauth_config) THEN "oauth"
    ELSE IF Truthy(e.JIRA_USERNAME) /\ Truthy(e.JIRA_API_TOKEN) THEN "basic"
    ELSE MsgServer

resolve_auth_type(e) ==
    LET is_server_6x == lower(getenv_default(e.JIRA_MODE, "cloud")) = "server_6x"
        is_cloud_url == is_atlassian_cloud_url(e.JIRA_URL)
    IN  IF is_cloud_url /\ ~is_server_6x THEN resolve_cloud(e)
        ELSE IF is_server_6x THEN resolve_server_6x(e)
        ELSE resolve_server_dc(e)

\* lines 255-263 and 265-273: JIRA_MODE and JIRA_AUTH, with their defaults
resolve_jira_mode(e) ==
    LET jira_mode_raw == lower(getenv_default(e.JIRA_MODE, "cloud"))
    IN  IF jira_mode_raw \notin {"cloud", "server_6x"} THEN "cloud" ELSE jira_mode_raw

resolve_jira_auth(e) ==
    LET jira_auth_raw == lower(getenv_default(e.JIRA_AUTH, "basic"))
    IN  IF jira_auth_raw \notin {"basic", "cookie"} THEN "basic" ELSE jira_auth_raw

\* JiraConfig.from_env as a whole
from_env(e) ==
    IF ~Truthy(e.JIRA_URL) /\ ~e.ATLASSIAN_OAUTH_ENABLE
    THEN Raise("ValueError", MsgUrl)
    ELSE LET auth_type == resolve_auth_type(e)
         IN  IF auth_type \notin AuthTypes
             THEN Raise("ValueError", auth_type)
             ELSE Return([url |-> e.JIRA_URL,
                          auth_type |-> auth_type,
                          username |-> e.JIRA_USERNAME,
                          api_token |-> e.JIRA_API_TOKEN,
                          personal_token |-> e.JIRA_PERSONAL_TOKEN,
                          oauth_config |-> e.oauth_config,
                          jira_mode |-> resolve_jira_mode(e),
                          jira_auth |-> resolve_jira_auth(e),
                          jira_password |-> e.JIRA_PASSWORD,
                          ssl_verify |-> e.JIRA_SSL_VERIFY,
                          client_cert |-> e.JIRA_CLIENT_CERT,
                          client_key |-> e.JIRA_CLIENT_KEY,
                          client_key_password |-> e.JIRA_CLIENT_KEY_PASSWORD,
                          jira_ca_file |-> e.JIRA_CA_FILE])

\* is_cloud deciding by the URL and the OAuth bundle only, whatever the mode
is_cloud_mode_ignored(c) ==
    IF c.auth_type = "oauth" /\ HasOAuth(c.oauth_config) /\ c.oauth_config.cloud_id
    THEN TRUE
    ELSE IF Truthy(c.url) THEN is_atlassian_cloud_url(c.url) ELSE FALSE

\* JiraConfig.is_cloud
is_cloud(c) ==
    IF c.jira_mode = "server_6x" THEN FALSE
    ELSE IF c.auth_type = "oauth" /\ HasOAuth(c.oauth_config) /\ c.oauth_config.cloud_id
         THEN TRUE
    ELSE IF Truthy(c.url) THEN is_atlassian_cloud_url(c.url) ELSE FALSE

\* JiraConfig.is_auth_configured
is_auth_configured(c) ==
    IF c.auth_type = "oauth"
    THEN IF HasOAuth(c.oauth_config)
         THEN IF c.oauth_config.type = "OAuthConfig"
              THEN IF /\ c.oauth_config.client_id /\ c.oauth_config.client_secret
                      /\ c.oauth_config.redirect_uri /\ c.oauth_config.scope
                      /\ c.oauth_config.cloud_id
                   THEN TRUE
                   ELSE IF ~c.oauth_config.client_id /\ ~c.oauth_config.client_secret
                   THEN TRUE
                   ELSE FALSE
              ELSE IF c.oauth_config.type = "BYOAccessTokenOAuthConfig"
              THEN IF c.oauth_config.cloud_id /\ c.oauth_config.access_token
                   THEN TRUE
                   ELSE FALSE
              ELSE FALSE
         ELSE FALSE
    ELSE IF c.auth_type = "pat" THEN Truthy(c.personal_token)
    ELSE IF c.auth_type = "basic"
    THEN IF c.jira_mode = "server_6x"
         THEN Truthy(c.username) /\ (Truthy(c.api_token) \/ Truthy(c.jira_password))
         ELSE Truthy(c.username) /\ Truthy(c.api_token)
    ELSE FALSE

\* The environments from_env is applied to.  JIRA_SSL_VERIFY is the value
\* is_env_ssl_verify gives; the TLS settings are left unset here and varied
\* in TlsEnvs.
EnvOAuth ==
    {NoOAuth} \cup {o \in OAuthConfigs : o.redirect_uri = o.scope}
              \cup BYOAccessTokenOAuthConfigs

Envs ==
    [JIRA_URL : {None, CloudUrl, ServerUrl},
     ATLASSIAN_OAUTH_ENABLE : BOOLEAN,
     JIRA_MODE : {None, "cloud", "server_6x", "SERVER_6X", "datacenter"},
     JIRA_AUTH : {None, "cookie"},
     JIRA_USERNAME : {None, "", "user"},
     JIRA_API_TOKEN : {None, "api-token"},
     JIRA_PERSONAL_TOKEN : {None, "", "pat-token"},
     JIRA_PASSWORD : {None, "secret"},
     oauth_config : EnvOAuth,
     JIRA_SSL_VERIFY : {TRUE},
     JIRA_CLIENT_CERT : {None}, JIRA_CLIENT_KEY : {None},
     JIRA_CLIENT_KEY_PASSWORD : {None},
     JIRA_CA_FILE : {None}, JIRA_TLS_INSECURE : {None}]

NoEnv == CHOOSE e \in Envs : e.JIRA_URL = None /\ e.oauth_config = NoOAuth

EnvInit ==
    /\ env \in Envs
    /\ res = Pending

\* The config from_env returned.
Config == CHOOSE c \in res.value : TRUE

\* config = JiraConfig.from_env()
FromEnv ==
    /\ res = Pending
    /\ res' = from_env(env)
    /\ UNCHANGED env

\* The JiraConfig objects built directly, with any auth_type and any
\* credentials.
DirectConfigs ==
    [url : {ServerUrl}, auth_type : AuthTypes \cup {"cookie"},
     username : {None, "", "user"}, api_token : {None, "api-token"},
     personal_token : {None, "", "pat-token"},
     oauth_config : {NoOAuth} \cup OAuthConfigs \cup BYOAccessTokenOAuthConfigs,
     jira_mode : {"cloud", "server_6x"}, jira_auth : {"basic"},
     jira_password : {None, "secret"},
     ssl_verify : {TRUE}, client_cert : {None}, client_key : {None},
     client_key_password : {None}, jira_ca_file : {None}]

AuthIdle == configured = {}

AuthInit ==
    /\ env = NoEnv
    /\ res \in {Return(c) : c \in DirectConfigs}
    /\ configured = {}

\* config.is_auth_configured()
IsAuthConfigured ==
    /\ res.raised = "none"
    /\ configured = {}
    /\ configured' = {is_auth_configured(Config)}
    /\ UNCHANGED <<env, res>>

(***************************************************************************)
(* jira/http_client.py                                                     *)
(***************************************************************************)

\* A URL is a sequence of pieces; the pieces are chosen so that an
\* occurrence of "/rest/api/3/" in the text of the URL is exactly an
\* occurrence of V3 in the sequence.
Pieces == {"/", "rest/api/3", "rest/api/2", "x"}
V3 == <<"/", "rest/api/3", "/">>
V2 == <<"/", "rest/api/2", "/">>

MaxUrlLen == 5

RECURSIVE UrlsOfLen(_)
UrlsOfLen(n) ==
    IF n = 0 THEN {<<>>}
    ELSE {Append(u, p) : u \in UrlsOfLen(n - 1), p \in Pieces}

Urls == UNION {UrlsOfLen(n) : n \in 1..MaxUrlLen}

\* s starts with the sequence p
StartsWith(s, p) == Len(s) >= Len(p) /\ SubSeq(s, 1, Len(p)) = p

\* old in s  (str.__contains__)
Contains(s, old) == \E i \in 1..Len(s) : StartsWith(SubSeq(s, i, Len(s)), old)

\* s.replace(old, new): the occurrences of old are found from left to right,
\* and the search goes on after the end of the occurrence just replaced.
RECURSIVE replace(_, _, _)
replace(s, old, new) ==
    IF s = <<>> THEN <<>>
    ELSE IF StartsWith(s, old)
         THEN new \o replace(SubSeq(s, Len(old) + 1, Len(s)), old, new)
         ELSE <<Head(s)>> \o replace(Tail(s), old, new)

\* APIv2Adapter.send, lines 59-64: the URL of the request passed on
adapter_send_url(request_url, force) ==
    IF force /\ request_url # <<>>
    THEN IF Contains(request_url, V3)
         THEN replace(request_url, V3, V2)
         ELSE request_url
    ELSE request_url

\* normalize_api_path
normalize_api_path(u, force) ==
    IF force /\ Contains(u, V3) THEN replace(u, V3, V2) ELSE u

UrlInit ==
    /\ url \in Urls
    /\ force_v2 \in BOOLEAN
    /\ sent = <<>>
    /\ normalized = <<>>

\* APIv2Adapter(force_v2).send(request)
AdapterSend ==
    /\ sent = <<>>
    /\ sent' = adapter_send_url(url, force_v2)
    /\ UNCHANGED <<url, force_v2, normalized>>

\* normalize_api_path(url, force_v2)
NormalizeApiPath ==
    /\ normalized = <<>>
    /\ normalized' = normalize_api_path(url, force_v2)
    /\ UNCHANGED <<url, force_v2, sent>>

(***************************************************************************)
(* utils/ssl.py and configure_api_version: the adapters of the HTTP        *)
(* session.  A URL is a sequence of pieces: the scheme with its "://", the *)
(* pieces of the network location, then the pieces of the path.  A session *)
(* is its client certificate (<<>> when none), its verify setting ("True"  *)
(* or the path of a CA bundle) and its adapters, a function from the       *)
(* prefixes they are mounted on.                                           *)
(***************************************************************************)

Https == "https://"
HttpPlain == "http://"

\* requests.Session(): the two adapters every session starts with
DefaultSession ==
    [cert |-> <<>>, verify |-> "True",
     adapters |-> (<<Https>> :> "HTTPAdapter") @@ (<<HttpPlain>> :> "HTTPAdapter")]

\* urlparse(url): where the path starts, the scheme, the network location
PathStart(u) ==
    IF \E i \in 2..Len(u) : u[i] = "/"
    THEN CHOOSE i \in 2..Len(u) : u[i] = "/" /\ \A j \in 2..(i - 1) : u[j] # "/"
    ELSE Len(u) + 1

scheme(u) == IF u # <<>> /\ u[1] \in {Https, HttpPlain} THEN u[1] ELSE ""

netloc(u) == IF scheme(u) = "" THEN <<>> ELSE SubSeq(u, 2, PathStart(u) - 1)

\* session.mount(prefix, adapter)
mount(s, prefix, adapter) ==
    [s EXCEPT !.adapters = (prefix :> adapter) @@ s.adapters]

\* session.get_adapter(url): the adapter of the longest mounted prefix the
\* URL starts with.  The prefixes a URL starts with are prefixes of one
\* another, so the longest one is the one of most pieces.
Matching(s, u) == {p \in DOMAIN s.adapters : StartsWith(u, p)}
Longest(P) == CHOOSE p \in P : \A q \in P : Len(q) <= Len(p)
get_adapter(s, u) == s.adapters[Longest(Matching(s, u))]

\* session.send(request): the adapter chosen sends the request.
\* SSLIgnoreAdapter verifies nothing, APIv2Adapter(force_v2=True) rewrites.
adapter_send(s, u, adapter) ==
    [op |-> "send", url |-> u, adapter |-> adapter,
     verify |-> IF adapter = "SSLIgnoreAdapter" THEN "False" ELSE s.verify,
     sent |-> IF adapter = "APIv2Adapter" THEN adapter_send_url(u, TRUE) ELSE u]

send(s, u) == adapter_send(s, u, get_adapter(s, u))

\* isinstance(v, str)
isinstance_str(v) == v # None

\* configure_ssl_verification, lines 107-109: an encrypted private key
encrypted_key(a) ==
    /\ isinstance_str(a.client_cert) /\ isinstance_str(a.client_key)
    /\ isinstance_str(a.client_key_password) /\ a.client_key_password # ""

\* lines 107, 117: session.cert = (client_cert, client_key)
attach_cert(s, a) ==
    IF isinstance_str(a.client_cert) /\ isinstance_str(a.client_key)
    THEN [s EXCEPT !.cert = <<a.client_cert, a.client_key>>]
    ELSE s

\* lines 124-128 with the override of the environment left out
ssl_verify_env_ignored(a) == a.ssl_verify

\* lines 124-128: ssl_verify after the JIRA_TLS_INSECURE override
ssl_verify(a) ==
    IF lower(getenv_default(a.insecure, "false")) \in {"true", "1", "yes"}
    THEN FALSE
    ELSE a.ssl_verify

\* lines 139-141: the adapter mounted for both schemes of the domain
mount_ssl_ignore(s, domain) ==
    mount(mount(s, <<Https>> \o domain, "SSLIgnoreAdapter"),
          <<HttpPlain>> \o domain, "SSLIgnoreAdapter")

\* lines 134-151
apply_policy(s, a) ==
    IF ~ssl_verify(a)
    THEN mount_ssl_ignore(s, netloc(a.url))
    ELSE IF Truthy(a.ca_file)
         THEN IF ~a.exists THEN s ELSE [s EXCEPT !.verify = a.ca_file]
         ELSE s

\* configure_ssl_verification("Jira", url, session, ...): the exception
\* raised and the session as the call leaves it
configure_ssl_verification(s, a) ==
    IF encrypted_key(a)
    THEN [raised |-> "ValueError", session |-> s]
    ELSE [raised |-> "none", session |-> apply_policy(attach_cert(s, a), a)]

\* configure_api_version(session, base_url, force_v2)
configure_api_version(s, base_url, force) ==
    IF force
    THEN mount(s, <<IF scheme(base_url) = "" THEN Https ELSE scheme(base_url)>>
                     \o netloc(base_url),
               "APIv2Adapter")
    ELSE s

\* The URLs of the services configured, and the URLs requested.
JiraCorp == <<"jira.corp">>
JiraCorpExample == <<"jira.corp", ".example">>
WikiCorp == <<"wiki.corp">>

BaseUrls ==
    {<<Https>> \o JiraCorp, <<Https>> \o JiraCorpExample,
     <<HttpPlain>> \o JiraCorp \o <<"/", "jira">>}

RequestUrls ==
    {<<sch>> \o host \o path :
        sch \in {Https, HttpPlain},
        host \in {JiraCorp, JiraCorpExample, WikiCorp},
        path \in {<<"/", "rest/api/3", "/", "x">>, <<"/", "x">>}}

\* The arguments of the calls: exists is os.path.exists(ca_file), insecure
\* the value of JIRA_TLS_INSECURE.
TlsArgs ==
    {a \in [url : BaseUrls, ssl_verify : BOOLEAN,
            insecure : {None, "true", "TRUE", "1", "Yes", "false"},
            ca_file : {None, "", "/ca.pem"}, exists : BOOLEAN,
            client_cert : {None, "/cert.pem"}, client_key : {None, "/key.pem"},
            client_key_password : {None, "", "pw"}, force_v2 : BOOLEAN] :
        /\ a.exists => Truthy(a.ca_file)
        /\ a.client_key_password # None =>
              a.client_cert # None /\ a.client_key # None}

NoArgs ==
    [url |-> <<>>, ssl_verify |-> TRUE, insecure |-> None, ca_file |-> None,
     exists |-> FALSE, client_cert |-> None, client_key |-> None,
     client_key_password |-> None, force_v2 |-> FALSE]

\* The sessions the calls start from: a new one, and one another service
\* has been configured on.
WikiSession ==
    configure_api_version(mount_ssl_ignore(DefaultSession, WikiCorp),
                          <<Https>> \o WikiCorp, TRUE)

Sessions == {DefaultSession, WikiSession}

NoTls == [args |-> NoArgs, op |-> "none", raised |-> "none", pre |-> DefaultSession]
NoWire == [op |-> "none", url |-> <<>>, adapter |-> "none", verify |-> "none", sent |-> <<>>]

TlsIdle == session = DefaultSession /\ tls = NoTls /\ wire = NoWire

TlsInit ==
    /\ session \in Sessions
    /\ tls \in {[NoTls EXCEPT !.args = a] : a \in TlsArgs}
    /\ wire = NoWire

\* configure_ssl_verification("Jira", url, session, ssl_verify, ...)
ConfigureSslVerification ==
    /\ tls.op = "none"
    /\ wire = NoWire
    /\ session' = configure_ssl_verification(session, tls.args).session
    /\ tls' = [tls EXCEPT !.op = "configure_ssl_verification",
                          !.raised = configure_ssl_verification(session, tls.args).raised,
                          !.pre = session]
    /\ UNCHANGED wire

\* configure_api_version(session, base_url, force_v2)
ConfigureApiVersion ==
    /\ tls.op \in {"none", "configure_ssl_verification"}
    /\ tls.raised = "none"
    /\ wire = NoWire
    /\ session' = configure_api_version(session, tls.args.url, tls.args.force_v2)
    /\ tls' = [tls EXCEPT !.op = "configure_api_version", !.pre = session]
    /\ UNCHANGED wire

\* session.request(method, url) once the session is configured
Send ==
    /\ tls.op # "none"
    /\ wire = NoWire
    /\ \E u \in RequestUrls : wire' = send(session, u)
    /\ UNCHANGED <<session, tls>>

(***************************************************************************)
(* jira/client.py: construction, the cookie session, the validation        *)
(***************************************************************************)

\* The session tokens the server hands out.
Tokens == {"JS1", "JS2"}

\* What a call to the server comes back with: an HTTP response (for the
\* session endpoint with the JSESSIONID of its cookies, None when it has
\* none), or an exception of the transport.
Http(status, cookie) == [kind |-> "http", status |-> status, cookie |-> cookie]
NetworkError == [kind |-> "RequestException", status |-> 0, cookie |-> None]
\* requests.post(session_url, ...)
EstablishResponses ==
    {Http(200, t) : t \in Tokens \cup {None}} \cup {Http(401, None), Http(500, None), NetworkError}
\* requests.delete(session_url, ...)
DeleteResponses == {Http(204, None), Http(401, None), Http(500, None), NetworkError}
\* jira.myself(): the user, an empty value, or an HTTPError / another exception
User == [kind |-> "user", status |-> 200, cookie |-> None]
Empty == [kind |-> "empty", status |-> 200, cookie |-> None]
HTTPError(status) == [kind |-> "HTTPError", status |-> status, cookie |-> None]
MyselfResponses == {User, Empty, HTTPError(401), HTTPError(500), NetworkError}
\* any other call of the atlassian library: a dict, something else, or an
\* exception
Dict == [kind |-> "dict", status |-> 200, cookie |-> None]
NotDict == [kind |-> "not dict", status |-> 200, cookie |-> None]
ApiResponses == {Dict, NotDict, HTTPError(401), HTTPError(500), NetworkError}

IsException(r) == r.kind \in {"HTTPError", "RequestException"}

AuthenticationError == "MCPAtlassianAuthenticationError"


NoAuth == [kind |-> "none", username |-> None, secret |-> None]

\* A run of client code: the session state it works on, the exception it has
\* raised ("none" while it runs on), and the calls it has made: the
\* responses to its session POSTs with what each establish raised, and the
\* number of myself() calls.  Of an exception raised `from e` it keeps the
\* pieces of the message and the cause e; of a comment operation also the
\* identifiers it was called with and the text it passed to the library;
\* of each call to the session endpoint how it was sent.
Run(cs, j) ==
    [cookie_session |-> cs, jar |-> j, raised |-> "none",
     est |-> <<>>, est_raised |-> <<>>, myself |-> 0, deleted |-> 0,
     msg |-> <<>>, cause |-> <<>>, args |-> <<>>, text |-> <<>>,
     endpoint |-> <<>>]

\* requests.post(session_url, json=payload, verify=self.config.ssl_verify,
\* timeout=30) and requests.delete(session_url, cookies=..., verify=...,
\* timeout=30): the verification and the client certificate of a call to
\* the session endpoint, which is made outside the session of the client
endpoint_call(c) ==
    [verify |-> IF c.ssl_verify THEN "True" ELSE "False", cert |-> <<>>]

\* establish_cookie_session caching the token without putting it in the
\* cookie store of the HTTP session
establish_cookie_session_no_cookie_set(c, s, r) ==
    IF ~Truthy(c.username) \/ ~Truthy(c.jira_password)
    THEN [s EXCEPT !.raised = "ValueError"]
    ELSE LET posted == [s EXCEPT !.est = Append(@, r),
                                !.endpoint = Append(@, endpoint_call(c))]
             raise == [posted EXCEPT !.raised = AuthenticationError,
                                     !.est_raised = Append(@, AuthenticationError)]
             return == [posted EXCEPT !.est_raised = Append(@, "none")]
         IN  IF r.kind # "http" THEN raise
             ELSE IF r.status = 200
                  THEN IF r.cookie # None
                       THEN [return EXCEPT !.cookie_session = r.cookie]
                       ELSE return
                  ELSE raise

\* establish_cookie_session raising for a network error only, not for an
\* HTTP status other than 200
establish_cookie_session_status_ignored(c, s, r) ==
    IF ~Truthy(c.username) \/ ~Truthy(c.jira_password)
    THEN [s EXCEPT !.raised = "ValueError"]
    ELSE LET posted == [s EXCEPT !.est = Append(@, r),
                                !.endpoint = Append(@, endpoint_call(c))]
             raise == [posted EXCEPT !.raised = AuthenticationError,
                                     !.est_raised = Append(@, AuthenticationError)]
             return == [posted EXCEPT !.est_raised = Append(@, "none")]
         IN  IF r.kind # "http" THEN raise
             ELSE IF r.status = 200 /\ r.cookie # None
                  THEN [return EXCEPT !.cookie_session = r.cookie,
                                      !.jar = r.cookie]
                  ELSE return

\* JiraClient._establish_cookie_session, r the outcome of the POST
establish_cookie_session(c, s, r) ==
    IF ~Truthy(c.username) \/ ~Truthy(c.jira_password)
    THEN [s EXCEPT !.raised = "ValueError"]
    ELSE LET posted == [s EXCEPT !.est = Append(@, r),
                                !.endpoint = Append(@, endpoint_call(c))]
             raise == [posted EXCEPT !.raised = AuthenticationError,
                                     !.est_raised = Append(@, AuthenticationError)]
             return == [posted EXCEPT !.est_raised = Append(@, "none")]
         IN  IF r.kind # "http" THEN raise
             ELSE IF r.status = 200
                  THEN IF r.cookie # None
                       THEN [return EXCEPT !.cookie_session = r.cookie,
                                           !.jar = r.cookie]
                       ELSE return
                  ELSE raise

\* JiraClient._refresh_cookie_session
refresh_cookie_session(c, s, r) ==
    IF Truthy(s.cookie_session) /\ c.jira_auth = "cookie"
    THEN establish_cookie_session(c, s, r)
    ELSE s

\* JiraClient._logout, d the outcome of the DELETE
logout(c, s, d) ==
    IF Truthy(s.cookie_session) /\ c.jira_auth = "cookie"
    THEN LET deleted == [s EXCEPT !.deleted = @ + 1,
                                  !.endpoint = Append(@, endpoint_call(c))]
         IN  IF d.kind # "http"
             THEN deleted
             ELSE [deleted EXCEPT !.cookie_session = None]
    ELSE s

\* JiraClient._validate_authentication, lines 298-304: the failure m1 of
\* myself() is one the refresh and the repeat are tried for
Retries(c, m1) == m1.kind = "HTTPError" /\ m1.status = 401 /\ c.jira_auth = "cookie"

\* JiraClient._validate_authentication, lines 317-323: the error raised
\* from the exception e of the first myself()
validation_failed(s, e) ==
    [s EXCEPT !.raised = AuthenticationError,
              !.msg = <<"Jira authentication validation failed: ", e.kind>>,
              !.cause = <<e>>]

\* the validation repeating myself() although the refresh has raised
validate_authentication_repeat_after_failed_refresh(c, s, m1, r, m2) ==
    LET called == [s EXCEPT !.myself = @ + 1]
    IN  IF ~IsException(m1) THEN called
        ELSE IF Retries(c, m1)
             THEN LET refreshed == refresh_cookie_session(c, called, r)
                      retried == [refreshed EXCEPT !.myself = @ + 1]
                  IN  IF m2.kind = "user" /\ refreshed.raised = "none"
                      THEN retried
                      ELSE validation_failed(retried, m1)
             ELSE validation_failed(called, m1)

\* JiraClient._validate_authentication: m1 the outcome of myself(), r of the
\* session POST of the refresh, m2 of the repeated myself()
validate_authentication(c, s, m1, r, m2) ==
    LET called == [s EXCEPT !.myself = @ + 1]
        failed == validation_failed(called, m1)
    IN  IF ~IsException(m1) THEN called
        ELSE IF Retries(c, m1)
             THEN LET refreshed == refresh_cookie_session(c, called, r)
                      retried == [refreshed EXCEPT !.myself = @ + 1]
                  IN  IF refreshed.raised # "none"
                      THEN validation_failed(refreshed, m1)
                      ELSE IF m2.kind = "user" THEN retried
                      ELSE validation_failed(retried, m1)
             ELSE failed

\* JiraClient.__init__, lines 52-105: the credentials of the HTTP session,
\* or the exception raised; oauth_ok is what configure_oauth_session returns
init_auth(c, oauth_ok) ==
    IF c.auth_type = "oauth"
    THEN IF ~HasOAuth(c.oauth_config) \/ ~c.oauth_config.cloud_id
         THEN Raise("ValueError", "OAuth authentication requires a valid cloud_id")
         ELSE IF ~oauth_ok
              THEN Raise(AuthenticationError, "Failed to configure OAuth session")
              ELSE Return([kind |-> "oauth", username |-> None, secret |-> None])
    ELSE IF c.auth_type = "pat"
         THEN Return([kind |-> "pat", username |-> None, secret |-> c.personal_token])
    ELSE Return([kind |-> "basic", username |-> c.username,
                 secret |-> IF Truthy(c.jira_password) THEN c.jira_password
                            ELSE c.api_token])

\* the cookie session established in every mode
init_cookie_session_any_mode(c, r) ==
    IF c.jira_auth = "cookie" /\ Truthy(c.username) /\ Truthy(c.jira_password)
    THEN [establish_cookie_session(c, Run(None, None), r) EXCEPT !.raised = "none"]
    ELSE Run(None, None)

\* JiraClient.__init__, lines 160-175: the cookie session of a new client
init_cookie_session(c, r) ==
    LET s == Run(None, None)
    IN  IF /\ c.jira_mode = "server_6x" /\ c.jira_auth = "cookie"
           /\ Truthy(c.username) /\ Truthy(c.jira_password)
        THEN [establish_cookie_session(c, s, r) EXCEPT !.raised = "none"]
        ELSE s

\* JiraClient.__init__, lines 177-185: the validation in debug mode
init_validate(c, s, debug, m1, r, m2) ==
    IF debug
    THEN [validate_authentication(c, s, m1, r, m2) EXCEPT
            !.raised = IF @ = AuthenticationError THEN "none" ELSE @,
            !.msg = <<>>, !.cause = <<>>]
    ELSE s

\* What `last` records of a call op that started with the session token pre
\* and the cookie pre_jar, was given the responses resp and ended as s.
Call(op, pre, pre_jar, resp, s) ==
    [op |-> op, pre |-> pre, pre_jar |-> pre_jar, resp |-> resp,
     raised |-> s.raised, est |-> s.est, est_raised |-> s.est_raised,
     myself |-> s.myself, deleted |-> s.deleted,
     msg |-> s.msg, cause |-> s.cause, args |-> s.args, text |-> s.text,
     endpoint |-> s.endpoint]

NoCall == Call("none", None, None, <<>>, Run(None, None))

ClientInit ==
    /\ pc = "new"
    /\ auth = NoAuth
    /\ cookie_session = None
    /\ jar = None
    /\ last = NoCall

\* The characters of the URL of a config, in pieces.
Chars(u) ==
    CASE u = CloudUrl -> <<Https, "acme.atlassian.net">>
      [] u = ServerUrl -> <<Https>> \o JiraCorpExample
      [] OTHER -> <<>>

\* JiraClient.__init__, lines 112-121: the arguments of
\* configure_ssl_verification, e the environment of the process
init_ssl_args(c, e, exists) ==
    [url |-> Chars(c.url), ssl_verify |-> c.ssl_verify,
     insecure |-> e.JIRA_TLS_INSECURE, ca_file |-> c.jira_ca_file,
     exists |-> exists, client_cert |-> c.client_cert,
     client_key |-> c.client_key,
     client_key_password |-> c.client_key_password,
     force_v2 |-> c.jira_mode = "server_6x"]

\* JiraClient.__init__, lines 123-129: the API version of Server 6.x
init_api_version(c, s) ==
    IF c.jira_mode = "server_6x"
    THEN configure_api_version(s, Chars(c.url), TRUE)
    ELSE s

\* client = JiraClient(config)
Construct ==
    /\ pc = "new"
    /\ res.raised = "none"
    /\ \E oauth_ok, debug, exists \in BOOLEAN, r1, r2 \in EstablishResponses,
          m1, m2 \in MyselfResponses :
        \* a response that is not asked for is not chosen
        /\ Config.auth_type # "oauth" => oauth_ok
        /\ exists => Truthy(Config.jira_ca_file)
        /\ init_cookie_session(Config, r1).est = <<>> => r1 = NetworkError
        /\ ~debug => m1 = User
        /\ ~Retries(Config, m1) => r2 = NetworkError /\ m2 = User
        /\ LET a == init_auth(Config, oauth_ok)
               t == configure_ssl_verification(DefaultSession,
                                               init_ssl_args(Config, env, exists))
               s1 == init_cookie_session(Config, r1)
               s2 == init_validate(Config, s1, debug, m1, r2, m2)
           IN  IF a.raised # "none"
               THEN /\ pc' = "failed"
                    /\ last' = [NoCall EXCEPT !.op = "construct", !.raised = a.raised]
                    /\ UNCHANGED <<auth, cookie_session, jar, session>>
               ELSE IF t.raised # "none"
               THEN /\ pc' = "failed"
                    /\ last' = [NoCall EXCEPT !.op = "construct", !.raised = t.raised]
                    /\ session' = t.session
                    /\ UNCHANGED <<auth, cookie_session, jar>>
               ELSE /\ pc' = IF s2.raised = "none" THEN "ready" ELSE "failed"
                    /\ auth' = CHOOSE x \in a.value : TRUE
                    /\ session' = init_api_version(Config, t.session)
                    /\ cookie_session' = s2.cookie_session
                    /\ jar' = s2.jar
                    /\ last' = Call("construct", None, None,
                                    IF debug THEN <<m1>> ELSE <<>>, s2)
    /\ UNCHANGED <<env, res>>

\* A request of the client through self.jira: the library was given
\* verify_ssl=self.config.ssl_verify (lines 80, 89, 104) and sends through
\* the session the constructor configured.
client_request(c, s, u) ==
    [send(s, u) EXCEPT !.verify = IF ~c.ssl_verify THEN "False" ELSE @]

\* self.jira.get(path) / self.jira.post(path) on a client constructed
ClientRequest ==
    /\ pc = "ready"
    /\ wire = NoWire
    /\ \E u \in RequestUrls : wire' = client_request(Config, session, u)
    /\ UNCHANGED <<env, res, pc, auth, cookie_session, jar, last, session, tls>>

\* client._establish_cookie_session()
EstablishCookieSession ==
    /\ pc = "ready"
    /\ \E r \in EstablishResponses :
        LET s == establish_cookie_session(Config, Run(cookie_session, jar), r)
        IN  /\ cookie_session' = s.cookie_session
            /\ jar' = s.jar
            /\ last' = Call("establish", cookie_session, jar, <<>>, s)
    /\ UNCHANGED <<env, res, pc, auth>>

\* client._refresh_cookie_session()
RefreshCookieSession ==
    /\ pc = "ready"
    /\ \E r \in EstablishResponses :
        LET s == refresh_cookie_session(Config, Run(cookie_session, jar), r)
        IN  /\ cookie_session' = s.cookie_session
            /\ jar' = s.jar
            /\ last' = Call("refresh", cookie_session, jar, <<>>, s)
    /\ UNCHANGED <<env, res, pc, auth>>

\* client._logout()
Logout ==
    /\ pc = "ready"
    /\ \E d \in DeleteResponses :
        LET s == logout(Config, Run(cookie_session, jar), d)
        IN  /\ cookie_session' = s.cookie_session
            /\ jar' = s.jar
            /\ last' = Call("logout", cookie_session, jar,
                            IF s.deleted > 0 THEN <<d>> ELSE <<>>, s)
    /\ UNCHANGED <<env, res, pc, auth>>

\* client._validate_authentication()
ValidateAuthentication ==
    /\ pc = "ready"
    /\ \E m1, m2 \in MyselfResponses, r \in EstablishResponses :
        /\ ~Retries(Config, m1) => r = NetworkError /\ m2 = User
        /\ LET s == validate_authentication(Config, Run(cookie_session, jar), m1, r, m2)
           IN  /\ cookie_session' = s.cookie_session
               /\ jar' = s.jar
               /\ last' = Call("validate", cookie_session, jar,
                               IF s.myself > 1 THEN <<m1, m2>> ELSE <<m1>>, s)
    /\ UNCHANGED <<env, res, pc, auth>>

(***************************************************************************)
(* API calls of the client: jira/comments.py and JiraClient.create_version *)
(***************************************************************************)

\* The TypeError the comment operations raise for a result that is no dict.
TypeError == [kind |-> "TypeError", status |-> 0, cookie |-> None]

\* The identifiers and the texts the comment operations are called with.
IssueKeys == {"PROJ-123"}
CommentIdArgs == {"10001"}
Markdown == "**bold**"
JiraMarkup == "*bold*"

\* CommentsMixin._markdown_to_jira: the text passed on; fails tells that
\* preprocessor.markdown_to_jira raises
markdown_to_jira(markdown_text, fails) ==
    IF ~Truthy(markdown_text) THEN ""
    ELSE IF fails THEN markdown_text
    ELSE JiraMarkup

\* except Exception as e: raise Exception(f"{prefix}: {str(e)}") from e
raise_from(s, prefix, e) ==
    [s EXCEPT !.raised = "Exception",
              !.msg = prefix \o <<": ", e.kind>>,
              !.cause = <<e>>]

\* a result that is no dict handed on as if it were one
comment_call_not_dict_passed(s, prefix, resp) ==
    IF IsException(resp) THEN raise_from(s, prefix, resp) ELSE s

\* CommentsMixin.get_issue_comments, get_comment, add_comment and
\* edit_comment: the call of the library and the check of its result,
\* inside try / except Exception
comment_call(s, prefix, resp) ==
    IF IsException(resp) THEN raise_from(s, prefix, resp)
    ELSE IF resp.kind # "dict" THEN raise_from(s, prefix, TypeError)
    ELSE s

\* The run of an operation called with the identifiers ids that passes the
\* text t to the library.
CommentRun(ids, t) ==
    [Run(cookie_session, jar) EXCEPT !.args = ids, !.text = t]

\* JiraClient.create_version: an exception of jira.post goes to the caller
create_version(s, resp) ==
    IF IsException(resp) THEN [s EXCEPT !.raised = resp.kind]
    ELSE IF resp.kind # "dict" THEN [s EXCEPT !.raised = "ValueError"]
    ELSE s

ApiCall(op, s, resp) ==
    /\ cookie_session' = s.cookie_session
    /\ jar' = s.jar
    /\ last' = Call(op, cookie_session, jar, <<resp>>, s)
    /\ UNCHANGED <<env, res, pc, auth>>

\* client.get_issue_comments(issue_key)
GetIssueComments ==
    /\ pc = "ready"
    /\ \E resp \in ApiResponses, issue_key \in IssueKeys :
        ApiCall("get_issue_comments",
                comment_call(CommentRun(<<issue_key>>, <<>>),
                             <<"Error getting comments">>, resp),
                resp)

\* client.get_comment(issue_key, comment_id)
GetComment ==
    /\ pc = "ready"
    /\ \E resp \in ApiResponses, issue_key \in IssueKeys, comment_id \in CommentIdArgs :
        ApiCall("get_comment",
                comment_call(CommentRun(<<issue_key, comment_id>>, <<>>),
                             <<"Error getting comment ", comment_id>>, resp),
                resp)

\* client.add_comment(issue_key, comment)
AddComment ==
    /\ pc = "ready"
    /\ \E resp \in ApiResponses, issue_key \in IssueKeys,
          comment \in {"", Markdown}, fails \in BOOLEAN :
        /\ fails => Truthy(comment)
        /\ ApiCall("add_comment",
                   comment_call(CommentRun(<<issue_key>>,
                                           <<markdown_to_jira(comment, fails)>>),
                                <<"Error adding comment">>, resp),
                   resp)

\* client.edit_comment(issue_key, comment_id, comment)
EditComment ==
    /\ pc = "ready"
    /\ \E resp \in ApiResponses, issue_key \in IssueKeys, comment_id \in CommentIdArgs,
          comment \in {"", Markdown}, fails \in BOOLEAN :
        /\ fails => Truthy(comment)
        /\ ApiCall("edit_comment",
                   comment_call(CommentRun(<<issue_key, comment_id>>,
                                           <<markdown_to_jira(comment, fails)>>),
                                <<"Error editing comment">>, resp),
                   resp)

\* client.create_version(project, name)
CreateVersion ==
    /\ pc = "ready"
    /\ \E resp \in ApiResponses :
        ApiCall("create_version", create_version(Run(cookie_session, jar), resp), resp)

\* The environments the clients of the model are configured from.
MinimalOAuth(cloud_id) ==
    [NoOAuth EXCEPT !.type = "OAuthConfig", !.cloud_id = cloud_id]

ClientEnvs ==
    {e \in Envs :
        /\ e.JIRA_URL # None /\ ~e.ATLASSIAN_OAUTH_ENABLE
        /\ e.JIRA_MODE \in {None, "server_6x"}
        /\ e.JIRA_USERNAME # "" /\ e.JIRA_PERSONAL_TOKEN # ""
        /\ e.oauth_config \in {NoOAuth, MinimalOAuth(TRUE), MinimalOAuth(FALSE)}}

(***************************************************************************)
(* Callers sharing one client.  _refresh_cookie_session and _logout take   *)
(* no lock, so the steps of two calls interleave: the check of the cached  *)
(* token, the call to the session endpoint, the assignment to              *)
(* self._cookie_session, the read of it for the argument of cookies.set,   *)
(* and cookies.set itself.                                                 *)
(***************************************************************************)
CallerIds == {1, 2}

\* A caller: the call it makes, the statement it is at, and the value it
\* holds: cookies["JSESSIONID"] of the response, then the argument it has
\* read for cookies.set.
Caller(op, at, token) == [op |-> op, at |-> at, token |-> token]
IdleCaller == Caller("none", "idle", None)
CallersIdle == callers = [t \in CallerIds |-> IdleCaller] /\ overlapped = FALSE

\* a call of the caller is in progress
Busy(t) == callers[t].at \notin {"idle", "done"}
Quiescent == \A t \in CallerIds : ~Busy(t)

\* the caller t moves on
Step(t, c) ==
    /\ callers' = [callers EXCEPT ![t] = c]
    /\ overlapped' = overlapped

\* the caller t begins a call
Begin(t, c) ==
    /\ callers' = [callers EXCEPT ![t] = c]
    /\ overlapped' = (overlapped \/ \E o \in CallerIds \ {t} : Busy(o))

\* if self._cookie_session and self.config.jira_auth == "cookie":
has_cookie_session == Truthy(cookie_session) /\ Config.jira_auth = "cookie"

\* _refresh_cookie_session: the check of the cached token
BeginRefresh ==
    /\ pc = "ready"
    /\ \E t \in CallerIds :
        /\ callers[t].at = "idle"
        /\ Begin(t, Caller("refresh", IF has_cookie_session THEN "post" ELSE "done", None))
    /\ UNCHANGED <<env, res, pc, auth, cookie_session, jar, last>>

\* _establish_cookie_session: the credentials check and requests.post
PostSession ==
    /\ \E t \in CallerIds, r \in EstablishResponses :
        /\ callers[t].at = "post"
        /\ IF /\ Truthy(Config.username) /\ Truthy(Config.jira_password)
              /\ r.kind = "http" /\ r.status = 200 /\ r.cookie # None
           THEN Step(t, Caller("refresh", "store", r.cookie))
           ELSE Step(t, Caller("refresh", "done", None))
    /\ UNCHANGED <<env, res, pc, auth, cookie_session, jar, last>>

\* self._cookie_session = cookies["JSESSIONID"]
StoreToken ==
    /\ \E t \in CallerIds :
        /\ callers[t].at = "store"
        /\ cookie_session' = callers[t].token
        /\ Step(t, Caller("refresh", "read", None))
    /\ UNCHANGED <<env, res, pc, auth, jar, last>>

\* the argument self._cookie_session of cookies.set is evaluated
ReadToken ==
    /\ \E t \in CallerIds :
        /\ callers[t].at = "read"
        /\ Step(t, Caller("refresh", "set", cookie_session))
    /\ UNCHANGED <<env, res, pc, auth, cookie_session, jar, last>>

\* self.jira._session.cookies.set("JSESSIONID", <argument>); a value of
\* None removes the cookie
SetCookie ==
    /\ \E t \in CallerIds :
        /\ callers[t].at = "set"
        /\ jar' = callers[t].token
        /\ Step(t, Caller("refresh", "done", None))
    /\ UNCHANGED <<env, res, pc, auth, cookie_session, last>>

\* _logout: the check of the cached token
BeginLogout ==
    /\ pc = "ready"
    /\ \E t \in CallerIds :
        /\ callers[t].at = "idle"
        /\ Begin(t, Caller("logout", IF has_cookie_session THEN "delete" ELSE "done", None))
    /\ UNCHANGED <<env, res, pc, auth, cookie_session, jar, last>>

\* requests.delete(session_url, ...); an exception is logged
DeleteSession ==
    /\ \E t \in CallerIds, d \in DeleteResponses :
        /\ callers[t].at = "delete"
        /\ Step(t, Caller("logout", IF d.kind = "http" THEN "clear" ELSE "done", None))
    /\ UNCHANGED <<env, res, pc, auth, cookie_session, jar, last>>

\* self._cookie_session = None
ClearToken ==
    /\ \E t \in CallerIds :
        /\ callers[t].at = "clear"
        /\ cookie_session' = None
        /\ Step(t, Caller("logout", "done", None))
    /\ UNCHANGED <<env, res, pc, auth, jar, last>>

\* The environments of the clients the callers share: Server 6.x with a
\* username and a password, with and without cookie authentication.
CallerEnvs ==
    {e \in ClientEnvs :
        /\ e.JIRA_URL = ServerUrl /\ e.JIRA_MODE = "server_6x"
        /\ e.JIRA_USERNAME = "user" /\ e.JIRA_PASSWORD = "secret"
        /\ e.JIRA_API_TOKEN = None /\ e.JIRA_PERSONAL_TOKEN = None
        /\ e.oauth_config = NoOAuth}

\* The environments of the clients that send requests: basic auth on a
\* Server URL, with every TLS policy.
TransportEnvs ==
    [JIRA_URL : {ServerUrl},
     ATLASSIAN_OAUTH_ENABLE : {FALSE},
     JIRA_MODE : {None, "server_6x"},
     JIRA_AUTH : {None},
     JIRA_USERNAME : {"user"},
     JIRA_API_TOKEN : {"api-token"},
     JIRA_PERSONAL_TOKEN : {None},
     JIRA_PASSWORD : {None},
     oauth_config : {NoOAuth},
     JIRA_SSL_VERIFY : BOOLEAN,
     JIRA_CLIENT_CERT : {None, "/cert.pem"},
     JIRA_CLIENT_KEY : {None, "/key.pem"},
     JIRA_CLIENT_KEY_PASSWORD : {None},
     JIRA_CA_FILE : {None, "/ca.pem"},
     JIRA_TLS_INSECURE : {None, "true", "false"}]

\* The environments of the cookie clients, with every TLS policy.
EndpointEnvs ==
    [JIRA_URL : {ServerUrl},
     ATLASSIAN_OAUTH_ENABLE : {FALSE},
     JIRA_MODE : {"server_6x"},
     JIRA_AUTH : {"cookie"},
     JIRA_USERNAME : {"user"},
     JIRA_API_TOKEN : {None},
     JIRA_PERSONAL_TOKEN : {None},
     JIRA_PASSWORD : {"secret"},
     oauth_config : {NoOAuth},
     JIRA_SSL_VERIFY : BOOLEAN,
     JIRA_CLIENT_CERT : {None, "/cert.pem"},
     JIRA_CLIENT_KEY : {None, "/key.pem"},
     JIRA_CLIENT_KEY_PASSWORD : {None},
     JIRA_CA_FILE : {None, "/ca.pem"},
     JIRA_TLS_INSECURE : {None, "true", "false"}]

\* The environments of the clients whose TLS settings vary.
TlsEnvs ==
    [JIRA_URL : {CloudUrl, ServerUrl},
     ATLASSIAN_OAUTH_ENABLE : {FALSE},
     JIRA_MODE : {None, "server_6x"},
     JIRA_AUTH : {None, "cookie"},
     JIRA_USERNAME : {"user"},
     JIRA_API_TOKEN : {"api-token"},
     JIRA_PERSONAL_TOKEN : {None, "pat-token"},
     JIRA_PASSWORD : {"secret"},
     oauth_config : {NoOAuth, MinimalOAuth(TRUE), MinimalOAuth(FALSE)},
     JIRA_SSL_VERIFY : BOOLEAN,
     JIRA_CLIENT_CERT : {None, "/cert.pem"},
     JIRA_CLIENT_KEY : {None, "/key.pem"},
     JIRA_CLIENT_KEY_PASSWORD : {None, "", "pw"},
     JIRA_CA_FILE : {None, "/ca.pem"},
     JIRA_TLS_INSECURE : {None}]

(***************************************************************************)
(* jira/client.py: JiraClient.get_paged                                    *)
(***************************************************************************)

MaxPages == 3

\* A dict is a function from its keys; {} is the empty function.
EmptyDict == <<>>
\* d[k] = v
SetItem(d, k, v) == [x \in DOMAIN d \cup {k} |-> IF x = k THEN v ELSE d[x]]
HasKey(d, k) == k \in DOMAIN d

PageTokens == {"T1", "T2"}

\* The parameter objects a caller passes: None, {} or a dict, with or
\* without a nextPageToken of its own.
CallerParams ==
    { {}, {EmptyDict}, {[jql |-> "q"]}, {[jql |-> "q", nextPageToken |-> "T0"]} }

\* What jira.get / jira.post comes back with: a dict (a page, with or without
\* nextPageToken), something that is no dict, or an exception.
Pages ==
    [values : {"A", "B"}] \cup [values : {"A", "B"}, nextPageToken : PageTokens]
PageResponses ==
    [kind : {"dict"}, body : Pages]
        \cup {[kind |-> "not dict", body |-> EmptyDict],
              [kind |-> "HTTPError", body |-> EmptyDict]}

\* get_paged, line 407: current_data = params_or_json or {}
\* bool(params_or_json): the caller passed a dict that is not empty
ParamsTruthy(p) == p # {} /\ p # {EmptyDict}
initial_data(p) == IF ParamsTruthy(p) THEN CHOOSE d \in p : TRUE ELSE EmptyDict

\* get_paged, lines 428-432: the loop ends when the page has no nextPageToken
last_page(api_result) == ~HasKey(api_result, "nextPageToken")
\* next_data forgetting to copy the token of the page
next_data_token_not_copied(data, api_result) == data

\* the data of the next request
next_data(data, api_result) ==
    SetItem(data, "nextPageToken", api_result["nextPageToken"])

PagedInit ==
    /\ ppc = "idle"
    /\ paged_raised = "none"
    /\ method = "get"
    /\ params_or_json = {}
    /\ passed = {}
    /\ current_data = EmptyDict
    /\ aliased = FALSE
    /\ all_results = <<>>
    /\ requests = <<>>
    /\ responses = <<>>
    /\ returned = {}

\* client.get_paged(method, url, params_or_json), lines 401-407: up to the
\* loop
GetPaged ==
    /\ pc = "ready"
    /\ ppc = "idle"
    /\ \E m \in {"get", "post"}, p \in CallerParams :
        /\ method' = m
        /\ params_or_json' = p
        /\ passed' = p
        /\ last' = Call("get_paged", cookie_session, jar, <<>>, Run(cookie_session, jar))
        /\ IF ~is_cloud(Config)
           THEN /\ ppc' = "raised"
                /\ paged_raised' = "ValueError"
                /\ UNCHANGED <<current_data, aliased>>
           ELSE /\ ppc' = "running"
                /\ current_data' = initial_data(p)
                /\ aliased' = ParamsTruthy(p)
                /\ UNCHANGED paged_raised
    /\ UNCHANGED <<envVars, pc, auth, cookie_session, jar, all_results, requests,
                   responses, returned>>

\* get_paged, lines 409-434: one turn of the loop, the request and what
\* follows from its response
GetPagedRequest ==
    /\ ppc = "running"
    /\ Len(requests) < MaxPages
    /\ \E resp \in PageResponses :
        /\ requests' = Append(requests, [method |-> method, data |-> current_data])
        /\ responses' = Append(responses, resp)
        /\ IF resp.kind = "HTTPError"
           THEN /\ ppc' = "raised"
                /\ paged_raised' = "HTTPError"
                /\ UNCHANGED <<all_results, current_data, params_or_json, returned>>
           ELSE IF resp.kind # "dict"
           THEN /\ ppc' = "raised"
                /\ paged_raised' = "ValueError"
                /\ UNCHANGED <<all_results, current_data, params_or_json, returned>>
           ELSE /\ all_results' = Append(all_results, resp.body)
                /\ UNCHANGED paged_raised
                /\ IF last_page(resp.body)
                   THEN /\ ppc' = "returned"
                        /\ returned' = {all_results'}
                        /\ UNCHANGED <<current_data, params_or_json>>
                   ELSE /\ ppc' = "running"
                        /\ current_data' = next_data(current_data, resp.body)
                        /\ params_or_json' =
                              IF aliased THEN {current_data'} ELSE params_or_json
                        /\ UNCHANGED returned
    /\ UNCHANGED <<envVars, clientVars, aliased, passed, method>>

\* The environments of the clients get_paged is called on.
PagedEnvs ==
    {e \in ClientEnvs :
        /\ e.JIRA_AUTH = None /\ e.JIRA_PASSWORD = None
        /\ e.JIRA_USERNAME = "user" /\ e.JIRA_API_TOKEN = "api-token"
        /\ e.oauth_config \in {NoOAuth, MinimalOAuth(TRUE)}}

(***************************************************************************)
(* Properties of JiraConfig.from_env                                       *)
(***************************************************************************)

\* from_env gets past the JIRA_URL check
UrlAccepted(e) == e.JIRA_URL \in {CloudUrl, ServerUrl} \/ e.ATLASSIAN_OAUTH_ENABLE
\* JIRA_MODE selects server_6x (in any letter case)
Mode6x(e) == e.JIRA_MODE \in {"server_6x", "SERVER_6X"}
Set(v) == v \notin {None, ""}

Resolved(t) == res.raised = "none" /\ \A c \in res.value : c.auth_type = t
ConfigError == res.raised = "ValueError" /\ res.value = {}

\* C1: for a Server/Data Center deployment (the URL is no Cloud host, the mode
\* is not server_6x) from_env resolves pat if a personal token is set, else
\* oauth if an OAuth bundle is set, else basic if username and API token are
\* set, and else raises a configuration error and returns no config.
C1_ServerDcPriority ==
    (res # Pending /\ UrlAccepted(env) /\ env.JIRA_URL # CloudUrl /\ ~Mode6x(env)) =>
        IF Set(env.JIRA_PERSONAL_TOKEN) THEN Resolved("pat")
        ELSE IF env.oauth_config # NoOAuth THEN Resolved("oauth")
        ELSE IF Set(env.JIRA_USERNAME) /\ Set(env.JIRA_API_TOKEN) THEN Resolved("basic")
        ELSE ConfigError

\* a Server/DC environment with both a personal token and an OAuth bundle,
\* resolved to pat
C1_Witness ==
    /\ env.JIRA_URL = ServerUrl /\ ~Mode6x(env)
    /\ Set(env.JIRA_PERSONAL_TOKEN) /\ env.oauth_config # NoOAuth
    /\ Resolved("pat") /\ res.value # {}

\* C2: for a Cloud deployment (Cloud URL, mode not server_6x) from_env
\* resolves oauth whenever an OAuth bundle is present, else basic if username
\* and API token are set, and else raises a configuration error; a personal
\* token never selects pat.
C2_CloudPriority ==
    (res # Pending /\ env.JIRA_URL = CloudUrl /\ ~Mode6x(env)) =>
        /\ IF env.oauth_config # NoOAuth THEN Resolved("oauth")
           ELSE IF Set(env.JIRA_USERNAME) /\ Set(env.JIRA_API_TOKEN) THEN Resolved("basic")
           ELSE ConfigError
        /\ ~(Resolved("pat") /\ res.value # {})
        /\ (env.oauth_config = NoOAuth /\ ~Set(env.JIRA_USERNAME)) => ConfigError

\* a Cloud environment with a personal token and an OAuth bundle, resolved to
\* oauth
C2_Witness ==
    /\ env.JIRA_URL = CloudUrl /\ ~Mode6x(env)
    /\ Set(env.JIRA_PERSONAL_TOKEN) /\ env.oauth_config # NoOAuth
    /\ Set(env.JIRA_USERNAME) /\ Set(env.JIRA_API_TOKEN)
    /\ Resolved("oauth") /\ res.value # {}

\* C3: with the mode server_6x, whatever the URL host, from_env resolves basic
\* exactly when a username and a password or an API token are set, and raises
\* a configuration error otherwise; a personal token or an OAuth bundle does
\* not change the outcome, and the config is not a Cloud one.
C3_Server6x ==
    (res # Pending /\ UrlAccepted(env) /\ Mode6x(env)) =>
        IF Set(env.JIRA_USERNAME) /\ (Set(env.JIRA_PASSWORD) \/ Set(env.JIRA_API_TOKEN))
        THEN /\ Resolved("basic") /\ res.value # {}
             /\ \A c \in res.value : c.jira_mode = "server_6x" /\ ~is_cloud(c)
        ELSE ConfigError

\* server_6x on a Cloud host, with an API token and no password, a personal
\* token and an OAuth bundle with a cloud_id: resolved to basic
C3_Witness ==
    /\ env.JIRA_URL = CloudUrl /\ Mode6x(env)
    /\ Set(env.JIRA_USERNAME) /\ Set(env.JIRA_API_TOKEN) /\ ~Set(env.JIRA_PASSWORD)
    /\ Set(env.JIRA_PERSONAL_TOKEN) /\ env.oauth_config.cloud_id
    /\ Resolved("basic") /\ res.value # {}

(***************************************************************************)
(* Properties of the version rewrite                                       *)
(***************************************************************************)

\* u with every occurrence of "/rest/api/3/" turned into "/rest/api/2/" and
\* nothing else changed
EachOccurrenceReplaced(u) ==
    [i \in 1..Len(u) |->
        IF 1 < i /\ i < Len(u) /\ SubSeq(u, i - 1, i + 1) = V3
        THEN "rest/api/2" ELSE u[i]]

\* C4: with force_v2 the rewrite (APIv2Adapter.send and normalize_api_path
\* alike) replaces each occurrence of "/rest/api/3/" by "/rest/api/2/" and
\* changes nothing else; without force_v2, and for a URL without
\* "/rest/api/3/", the URL is unchanged.
C4_RewriteEachOccurrence ==
    LET expected == IF force_v2 THEN EachOccurrenceReplaced(url) ELSE url
    IN  /\ sent # <<>> => sent = expected
        /\ normalized # <<>> => normalized = expected

\* C29: the URL the force_v2 rewrite gives has no "/rest/api/3/" left in
\* it, and the rewrite applied to it once more gives it back unchanged.
\* str.replace goes on after the end of each match, so of two occurrences
\* sharing a slash the second one stays.
C29_RewriteLeavesNoV3 ==
    /\ (force_v2 /\ sent # <<>>) =>
          /\ ~Contains(sent, V3)
          /\ adapter_send_url(sent, force_v2) = sent
    /\ (force_v2 /\ normalized # <<>>) =>
          /\ ~Contains(normalized, V3)
          /\ normalize_api_path(normalized, force_v2) = normalized

(***************************************************************************)
(* Properties of the cookie session                                        *)
(***************************************************************************)

\* the calls that are neither session management nor the validation
NormalOps ==
    {"get_issue_comments", "get_comment", "add_comment", "edit_comment", "create_version"}

\* the last call was made on a client whose cookie session was Active
WasActive == Truthy(last.pre) /\ Config.jira_auth = "cookie"

\* the session token and the cookie before the i-th session POST of the last
\* call: those of the start of the call, or those the POST before it set
TokenBefore(i) == IF i = 1 THEN last.pre ELSE last.est[i - 1].cookie
CookieBefore(i) == IF i = 1 THEN last.pre_jar ELSE last.est[i - 1].cookie

\* C5: on a client whose cookie session is Active, a 401 response to a normal
\* API call triggers exactly one re-run of the session establishment.
C5_Normal401EstablishesOnce ==
    (last.op \in NormalOps /\ WasActive /\ last.resp = <<HTTPError(401)>>) =>
        Len(last.est) = 1

\* C6: when the session endpoint answers the establish POST with 200 and a
\* JSESSIONID, the token is cached and the same token is the JSESSIONID of the
\* HTTP session's cookie store; when it answers 200 without a JSESSIONID,
\* establish returns without raising and the session state is as before
\* (NoSession stays NoSession).
C6_Establish200 ==
    \A i \in 1..Len(last.est) :
        LET r == last.est[i]
        IN  (r.kind = "http" /\ r.status = 200) =>
                /\ last.est_raised[i] = "none"
                /\ i = Len(last.est) =>
                     IF r.cookie # None
                     THEN /\ cookie_session = r.cookie /\ Truthy(cookie_session)
                          /\ jar = r.cookie
                     ELSE /\ cookie_session = TokenBefore(i)
                          /\ jar = CookieBefore(i)
                          /\ TokenBefore(i) = None => ~Truthy(cookie_session)

\* a client without a session, whose establish was answered 200 with the
\* token JS1: the token is cached and in the cookie store
C6_Witness ==
    /\ last.op = "establish" /\ last.pre = None
    /\ last.est = <<Http(200, "JS1")>>
    /\ cookie_session = "JS1" /\ jar = "JS1"

\* C7: logout() called in the Active state ends with no cached token,
\* whatever the DELETE comes back with, a network error included, and does
\* not raise.
C7_LogoutEndsNoSession ==
    (last.op = "logout" /\ WasActive) =>
        /\ cookie_session = None
        /\ last.raised = "none"

\* C8: session establishment raises an authentication error for every
\* response other than 200 and for every network error, and leaves the
\* cached token as it was; in the construction of a client the error is
\* caught: the construction completes and the client is ready with its
\* basic-auth credentials, and without a session when it was the
\* establishment of the constructor (the first POST) that failed.
C8_EstablishFailure ==
    \A i \in 1..Len(last.est) :
        LET r == last.est[i]
        IN  (r.kind # "http" \/ r.status # 200) =>
                /\ last.est_raised[i] = AuthenticationError
                /\ i = Len(last.est) => cookie_session = TokenBefore(i)
                /\ last.op # "construct" => last.raised = AuthenticationError
                /\ last.op = "construct" =>
                     /\ pc = "ready" /\ last.raised = "none"
                     /\ i = 1 => cookie_session = None
                     /\ auth = [kind |-> "basic", username |-> Config.username,
                                secret |-> Config.jira_password]
                     /\ Truthy(auth.username) /\ Truthy(auth.secret)

\* a client constructed in server_6x cookie mode whose session POST was
\* answered 401: it is ready, without a session
C8_Witness ==
    /\ last.op = "construct" /\ pc = "ready"
    /\ last.est = <<Http(401, None)>>
    /\ cookie_session = None /\ auth.kind = "basic"

\* C30: a client with basic auth that is not in server_6x mode sends the
\* API token as its secret, and a server_6x client the password or the API
\* token.  __init__ takes jira_password whenever it is set, whatever the
\* mode, and from_env reads JIRA_PASSWORD in every mode.
C30_BasicSecretByMode ==
    (pc = "ready" /\ auth.kind = "basic") =>
        IF Config.jira_mode = "server_6x"
        THEN auth.secret \in {Config.jira_password, Config.api_token}
        ELSE auth.secret = Config.api_token

\* C27: at every point between the calls the cookie store of the HTTP
\* session holds a JSESSIONID exactly when a session token is cached, and
\* then the same one.  _logout sets the cached token to None and leaves the
\* cookie in the store.
C27_JarHoldsCachedToken ==
    jar = cookie_session

\* The cookie session manager is active for this config.
CookieMode == Config.jira_mode = "server_6x" /\ Config.jira_auth = "cookie"

\* C22: through construction and every sequence of refresh and logout
\* calls, a session token is cached only on a server_6x client with cookie
\* auth; on every other client no call has sent a request to the session
\* endpoint, and no token is cached and no cookie stored.
C22_InertUnlessCookieMode ==
    (res.raised = "none" /\ ~CookieMode) =>
        /\ cookie_session = None /\ jar = None
        /\ last.est = <<>> /\ last.deleted = 0

\* C22 witness: a client with JIRA_AUTH=cookie that is not in server_6x
\* mode has been constructed and then asked to refresh, and is inert.
C22_Witness ==
    /\ res.raised = "none" /\ pc = "ready"
    /\ Config.jira_auth = "cookie" /\ Config.jira_mode # "server_6x"
    /\ Truthy(Config.username) /\ Truthy(Config.jira_password)
    /\ last.op = "refresh"
    /\ cookie_session = None /\ last.est = <<>>

\* One call of _validate_authentication has ended.
Validated == last.op = "validate"
Repeated == last.myself = 2

\* C24: one validation makes at most one session POST and at most one
\* repeat of myself(), both only after a 401 in cookie mode; the POST is
\* made only when a session token was cached; after a refresh that raised
\* there is no repeat; and a repeat that does not give a user ends the
\* validation with an authentication error raised from the first failure.
C24_OneRefreshOneRepeat ==
    Validated =>
        /\ Len(last.est) <= 1 /\ last.myself \in {1, 2}
        /\ last.est # <<>> =>
              /\ Truthy(last.pre) /\ Config.jira_auth = "cookie"
              /\ last.resp[1] = HTTPError(401)
        /\ (last.est # <<>> /\ last.est_raised[1] # "none") =>
              /\ ~Repeated
              /\ last.raised = AuthenticationError /\ last.cause = <<last.resp[1]>>
        /\ Repeated =>
              /\ last.resp[1] = HTTPError(401) /\ Config.jira_auth = "cookie"
              /\ last.resp[2].kind # "user" =>
                    /\ last.raised = AuthenticationError
                    /\ last.cause = <<last.resp[1]>>

\* C24 witness: a validation on an active cookie session got a 401,
\* re-established the session with one POST, repeated myself() once, and
\* the repeat failed in another way.
C24_Witness ==
    /\ Validated /\ Repeated
    /\ Truthy(last.pre) /\ Len(last.est) = 1 /\ last.est_raised[1] = "none"
    /\ last.resp[2] = HTTPError(500)
    /\ last.raised = AuthenticationError
    /\ last.cause = <<HTTPError(401)>>

(***************************************************************************)
(* Properties of the comment operations                                    *)
(***************************************************************************)

CommentOps == {"get_issue_comments", "get_comment", "add_comment", "edit_comment"}
CommentCalled == last.op \in CommentOps

\* The response of the library is a failure of the operation, and the
\* error it starts from.
Failure == IsException(last.resp[1]) \/ last.resp[1].kind # "dict"
Original == IF IsException(last.resp[1]) THEN last.resp[1] ELSE TypeError

InMessage(x) == \E i \in 1..Len(last.msg) : last.msg[i] = x

\* What each operation says first in its error.
Says ==
    [get_issue_comments |-> "Error getting comments",
     get_comment |-> "Error getting comment ",
     add_comment |-> "Error adding comment",
     edit_comment |-> "Error editing comment"]

HasToken(resp) == resp.kind = "dict" /\ "nextPageToken" \in DOMAIN resp.body

\* the parameters the caller passed: its dict, or nothing (None or {})
CallerData(p) == IF p \in {{}, {EmptyDict}} THEN EmptyDict ELSE CHOOSE d \in p : TRUE

\* the data of the i-th request is the data of the one before, with the
\* token of the response before as nextPageToken
CarriesTokenOfPrevious(i) ==
    LET now == requests[i].data
        before == requests[i - 1].data
    IN  /\ DOMAIN now = DOMAIN before \cup {"nextPageToken"}
        /\ now["nextPageToken"] = responses[i - 1].body["nextPageToken"]
        /\ \A k \in DOMAIN before \ {"nextPageToken"} : now[k] = before[k]

\* C9: on a Cloud client, when responses 1..n-1 each have a nextPageToken and
\* response n has none, get_paged issues exactly n requests one after the
\* other and returns exactly those n payloads in the order of the requests;
\* every request after the first carries the token of the response just
\* before it (the first carries the caller's own parameters), and no request
\* follows the first response without a token.
C9_PagedFetch ==
    LET n == Len(requests)
    IN  /\ Len(responses) = n
        /\ \A i \in 1..(n - 1) : HasToken(responses[i])
        /\ \A i \in 2..n : CarriesTokenOfPrevious(i)
        /\ n >= 1 => requests[1].data = CallerData(passed)
        /\ (n >= 1 /\ responses[n].kind = "dict" /\ ~HasToken(responses[n])) =>
              /\ ppc = "returned"
              /\ returned = {[i \in 1..n |-> responses[i].body]}
        /\ (n >= 1 /\ HasToken(responses[n])) => ppc = "running" /\ returned = {}
        /\ ppc = "returned" =>
              n >= 1 /\ responses[n].kind = "dict" /\ ~HasToken(responses[n])

\* get_paged has returned three pages: the first two had the tokens T1 and
\* T2, which the second and the third request carried
C9_Witness ==
    /\ ppc = "returned" /\ Len(requests) = 3
    /\ responses[1].body = [values |-> "A", nextPageToken |-> "T1"]
    /\ responses[2].body = [values |-> "B", nextPageToken |-> "T2"]
    /\ requests[2].data = [jql |-> "q", nextPageToken |-> "T1"]
    /\ requests[3].data = [jql |-> "q", nextPageToken |-> "T2"]
    /\ returned = {<<responses[1].body, responses[2].body, responses[3].body>>}

\* get_paged has been called and has not gone past its first check
FailedBeforeAnyRequest ==
    /\ ppc = "raised" /\ paged_raised = "ValueError"
    /\ requests = <<>> /\ returned = {}

\* a response that is no dict makes get_paged raise and return nothing
NotDictRaises ==
    (Len(responses) >= 1 /\ responses[Len(responses)].kind = "not dict") =>
        /\ ppc = "raised" /\ paged_raised = "ValueError"
        /\ returned = {}

\* C10 as claimed: get_paged on a client with a Server/DC URL, or in mode
\* server_6x, fails with a configuration error before any HTTP request; a page
\* response that is not a structured object makes it raise and return none of
\* the pages.
C10_NotCloudByUrlOrMode ==
    /\ (ppc # "idle" /\ (Config.url # CloudUrl \/ Config.jira_mode = "server_6x")) =>
            FailedBeforeAnyRequest
    /\ NotDictRaises

\* C10, amended: the same for a client in mode server_6x, or with a URL that
\* is no Cloud host unless it authenticates by OAuth with a cloud_id.
C10_NotCloudFails ==
    /\ (/\ ppc # "idle"
        /\ \/ Config.jira_mode = "server_6x"
           \/ /\ Config.url # CloudUrl
              /\ ~(Config.auth_type = "oauth" /\ Config.oauth_config.cloud_id)) =>
            FailedBeforeAnyRequest
    /\ NotDictRaises

\* get_paged called on a server_6x client with a Cloud URL: it has raised
\* without a request
C10_Witness ==
    /\ ppc = "raised" /\ paged_raised = "ValueError" /\ requests = <<>>
    /\ Config.url = CloudUrl /\ Config.jira_mode = "server_6x"

\* C28: the object the caller passed as params_or_json has, at every point
\* of the call and after it, the keys and values it was passed with.  The
\* loop writes nextPageToken into current_data, which is the caller's own
\* dict whenever that dict is not empty.
C28_CallerParamsUnchanged ==
    ppc # "idle" => params_or_json = passed

(***************************************************************************)
(* jira/mappers.py: the field mappers                                      *)
(***************************************************************************)

\* The addresses of the objects, in the order they are allocated.  A value
\* of a dict is None, a string or the address of a dict.
Addrs ==
    <<"@1", "@2", "@3", "@4", "@5", "@6", "@7", "@8", "@9", "@10", "@11",
      "@12", "@13", "@14", "@15", "@16", "@17", "@18", "@19", "@20">>
AddrSet == {Addrs[i] : i \in 1..Len(Addrs)}
EmptyHeap == [a \in {} |-> EmptyDict]

\* isinstance(v, dict)
IsDict(v) == v \in AddrSet

\* not data, for data a dict, None or a string
Not(h, data) == IF IsDict(data) THEN h[data] = EmptyDict ELSE ~Truthy(data)

\* del d[k]
DelItem(d, k) == [x \in DOMAIN d \ {k} |-> d[x]]

\* a write to the object at address a
Store(h, a, d) == [h EXCEPT ![a] = d]

\* the address of the next object created
NewAddr(h) ==
    Addrs[CHOOSE i \in 1..Len(Addrs) :
            /\ Addrs[i] \notin DOMAIN h
            /\ \A j \in 1..(i - 1) : Addrs[j] \in DOMAIN h]

\* a copy that is the object itself
copy_aliasing(h, a) == [heap |-> h, ret |-> a]

\* dict.copy(): a new object with the keys and values of the one at a
copy(h, a) == [heap |-> (NewAddr(h) :> h[a]) @@ h, ret |-> NewAddr(h)]

\* d[k] = v for the dict d at address a
SetField(h, a, k, v) == Store(h, a, SetItem(h[a], k, v))

\* the result of a call: the heap after it and the value returned
Result(h, v) == [heap |-> h, ret |-> v]

\* lines 36-42 trying key before name
identity_fallback_key_first(d) ==
    IF ~HasKey(d, "accountId") \/ d["accountId"] = None
    THEN IF HasKey(d, "key") /\ Truthy(d["key"])
         THEN SetItem(d, "accountId", d["key"])
         ELSE IF HasKey(d, "name") /\ Truthy(d["name"])
         THEN SetItem(d, "accountId", d["name"])
         ELSE d
    ELSE d

\* normalize_user_response, lines 36-42: accountId from name, else from key
identity_fallback(d) ==
    IF ~HasKey(d, "accountId") \/ d["accountId"] = None
    THEN IF HasKey(d, "name") /\ Truthy(d["name"])
         THEN SetItem(d, "accountId", d["name"])
         ELSE IF HasKey(d, "key") /\ Truthy(d["key"])
         THEN SetItem(d, "accountId", d["key"])
         ELSE d
    ELSE d

\* normalize_user_response, lines 45-46: emailAddress is None when missing
email_default(d) ==
    IF ~HasKey(d, "emailAddress") THEN SetItem(d, "emailAddress", None) ELSE d

\* normalize_user_response, lines 36-48, on the copy c.ret just made
user_response_of(c) ==
    Result(Store(c.heap, c.ret, email_default(identity_fallback(c.heap[c.ret]))), c.ret)

\* UserFieldMapper.normalize_user_response(data)
normalize_user_response(h, data) ==
    IF Not(h, data) THEN Result(h, data) ELSE user_response_of(copy(h, data))

\* lines 74-77 without the del of accountId
accountId_to_name_accountId_kept(d) ==
    IF HasKey(d, "accountId") THEN SetItem(d, "name", d["accountId"]) ELSE d

\* normalize_user_request, lines 74-77: name is accountId, accountId removed
accountId_to_name(d) ==
    IF HasKey(d, "accountId")
    THEN DelItem(SetItem(d, "name", d["accountId"]), "accountId")
    ELSE d

\* normalize_user_request, lines 74-82, on the copy c.ret just made
user_request_of(c) ==
    Result(Store(c.heap, c.ret, accountId_to_name(c.heap[c.ret])), c.ret)

\* UserFieldMapper.normalize_user_request(data, is_server_6x)
normalize_user_request(h, data, is_server_6x) ==
    IF Not(h, data) THEN Result(h, data)
    ELSE IF ~is_server_6x THEN Result(h, data)
    ELSE user_request_of(copy(h, data))

\* d[k] = the value the call with result r returned, for the dict d at a
assign(r, a, k) == SetField(r.heap, a, k, r.ret)

\* if k in d and isinstance(d[k], dict):
\*     d[k] = UserFieldMapper.normalize_user_response(d[k])
\* for the dict d at address a
response_field(h, a, k) ==
    IF HasKey(h[a], k) /\ IsDict(h[a][k])
    THEN assign(normalize_user_response(h, h[a][k]), a, k)
    ELSE h

\* if k in fields and isinstance(fields[k], dict):
\*     fields[k] = UserFieldMapper.normalize_user_request(fields[k], True)
request_field(h, a, k) ==
    IF HasKey(h[a], k) /\ IsDict(h[a][k])
    THEN assign(normalize_user_request(h, h[a][k], TRUE), a, k)
    ELSE h

\* lines 109-127 leaving fields.creator as it is
response_fields_creator_skipped(n, f) ==
    Result(SetField(response_field(response_field(f.heap, f.ret, "assignee"),
                                   f.ret, "reporter"),
                    n, "fields", f.ret), n)

\* normalize_issue_response, lines 109-127, on the copy f.ret of fields, for
\* the copy n of the issue
response_fields(n, f) ==
    Result(SetField(response_field(response_field(response_field(
                        f.heap, f.ret, "assignee"), f.ret, "reporter"),
                        f.ret, "creator"),
                    n, "fields", f.ret), n)

\* normalize_issue_response, lines 105-129, on the copy c.ret just made
issue_response_of(c) ==
    IF HasKey(c.heap[c.ret], "fields") /\ IsDict(c.heap[c.ret]["fields"])
    THEN response_fields(c.ret, copy(c.heap, c.heap[c.ret]["fields"]))
    ELSE c

\* IssueFieldMapper.normalize_issue_response(data)
normalize_issue_response(h, data) ==
    IF Not(h, data) THEN Result(h, data) ELSE issue_response_of(copy(h, data))

\* normalize_issue_request, lines 158-170, on the copy f.ret of fields, for
\* the copy n of the issue
request_fields(n, f) ==
    Result(SetField(request_field(request_field(f.heap, f.ret, "assignee"),
                                  f.ret, "reporter"),
                    n, "fields", f.ret), n)

\* normalize_issue_request, lines 154-172, on the copy c.ret just made
issue_request_of(c) ==
    IF HasKey(c.heap[c.ret], "fields") /\ IsDict(c.heap[c.ret]["fields"])
    THEN request_fields(c.ret, copy(c.heap, c.heap[c.ret]["fields"]))
    ELSE c

\* IssueFieldMapper.normalize_issue_request(data, is_server_6x)
normalize_issue_request(h, data, is_server_6x) ==
    IF Not(h, data) THEN Result(h, data)
    ELSE IF ~is_server_6x THEN Result(h, data)
    ELSE issue_request_of(copy(h, data))

\* normalize_comment_response, lines 195-209, on the copy c.ret just made
comment_response_of(c) ==
    Result(response_field(response_field(c.heap, c.ret, "author"),
                          c.ret, "updateAuthor"), c.ret)

\* CommentFieldMapper.normalize_comment_response(data)
normalize_comment_response(h, data) ==
    IF Not(h, data) THEN Result(h, data) ELSE comment_response_of(copy(h, data))

\* the list done with one more element, the value the call with result r
\* returned
appended(done, r) == Result(r.heap, Append(done, r.ret))

\* the list comprehension of normalize_comments_list: r is the heap and the
\* list so far; the heap and the list once the comments of todo are done
RECURSIVE comprehension(_, _)
comprehension(r, todo) ==
    IF todo = <<>> THEN r
    ELSE comprehension(appended(r.ret, normalize_comment_response(r.heap, Head(todo))),
                       Tail(todo))

\* CommentFieldMapper.normalize_comments_list(comments): a new list of the
\* normalized comments, in the order of comments
normalize_comments_list(h, comments) == comprehension(Result(h, <<>>), comments)

\* The mark of a key that a dict does not have.
Absent == "<absent>"

\* The dict with the keys of r that are not marked Absent.
Strip(r) == [k \in {x \in DOMAIN r : r[x] # Absent} |-> r[k]]

\* The raw user objects of the API: Cloud ones carry accountId, Server 6.x
\* ones name and key; any field may be missing or empty.
RawUsers ==
    {Strip(r) : r \in [accountId : {Absent, None, "acc-1"},
                       name : {Absent, "", "bob"},
                       key : {Absent, "", "bob-key"},
                       emailAddress : {Absent, None, "bob@corp"},
                       displayName : {Absent, "Bob"}]}

\* The user objects nested in an issue or a comment of the model.
NestedUser ==
    [empty |-> EmptyDict,
     cloud |-> [accountId |-> "acc-1", displayName |-> "Bob"],
     server |-> [name |-> "bob"],
     both |-> [accountId |-> "acc-1", name |-> "bob"]]

\* What a key that may hold a user holds: nothing (the key is absent), null
\* or one of the nested users.
Nested == {"absent", "null"} \cup DOMAIN NestedUser

\* The entry of key k holding what n says, the user being at address a.
Entry(k, n, a) ==
    CASE n = "absent" -> EmptyDict
      [] n = "null" -> (k :> None)
      [] OTHER -> (k :> a)

\* The object at address a, when n says it is a user.
Object(n, a) == IF n \in DOMAIN NestedUser THEN (a :> NestedUser[n]) ELSE EmptyHeap

Slots == {"assignee", "reporter", "creator"}

\* The heap of an issue at @1 whose fields (the dict at @2) hold the users
\* s says, at @3, @4 and @5.
IssueHeap(s) ==
    ("@1" :> (("key" :> "PROJ-1") @@ ("fields" :> "@2"))) @@
    ("@2" :> (("summary" :> "S") @@ Entry("assignee", s["assignee"], "@3") @@
              Entry("reporter", s["reporter"], "@4") @@
              Entry("creator", s["creator"], "@5"))) @@
    Object(s["assignee"], "@3") @@ Object(s["reporter"], "@4") @@
    Object(s["creator"], "@5")

\* Issues with fields, without fields, with null fields, and the empty one.
IssueHeaps ==
    {IssueHeap(s) : s \in [Slots -> Nested]} \cup
    {("@1" :> ("key" :> "PROJ-1")),
     ("@1" :> (("key" :> "PROJ-1") @@ ("fields" :> None))),
     ("@1" :> EmptyDict)}

\* The heap of a comment at address c with its author at a and its
\* updateAuthor at u.
CommentHeap(c, id, an, a, un, u) ==
    (c :> (("id" :> id) @@ Entry("author", an, a) @@ Entry("updateAuthor", un, u))) @@
    Object(an, a) @@ Object(un, u)

CommentHeaps ==
    {CommentHeap("@1", "10001", an, "@2", un, "@3") : an \in Nested, un \in Nested} \cup
    {("@1" :> EmptyDict)}

\* Lists of two comments.
CommentListHeaps ==
    {CommentHeap("@1", "10001", a1, "@2", "absent", "@3") @@
     CommentHeap("@4", "10002", a2, "@5", u2, "@6") :
        a1 \in Nested, a2 \in DOMAIN NestedUser, u2 \in {"absent", "server"}}

Input(kind, arg) == [kind |-> kind, arg |-> arg]
\* The answer of the API a call was given, for the calls that are given one.
NoResponse == [kind |-> "none", has_comments |-> FALSE, comments |-> <<>>]

NoMapped ==
    [op |-> "none", is_server_6x |-> FALSE, pre |-> EmptyHeap, ret |-> <<>>,
     raised |-> "none", limit |-> 0, resp |-> NoResponse]

MapperIdle ==
    /\ heap = EmptyHeap
    /\ input = Input("none", <<>>)
    /\ mapped = NoMapped

\* What a mapper is called on: a user, an issue, a comment or a list of
\* two comments, or None.
MapperInit ==
    /\ mapped = NoMapped
    /\ \/ heap \in {("@1" :> u) : u \in RawUsers} /\ input = Input("user", <<"@1">>)
       \/ heap \in IssueHeaps /\ input = Input("issue", <<"@1">>)
       \/ heap \in CommentHeaps /\ input = Input("comment", <<"@1">>)
       \/ heap \in CommentListHeaps /\ input = Input("comments", <<"@1", "@4">>)
       \/ /\ heap = EmptyHeap
          /\ input \in {Input(k, <<None>>) : k \in {"user", "issue", "comment"}}

\* What `mapped` records of the call op, whose result is r.
Mapped(op, is_server_6x, r, ret) ==
    /\ heap' = r.heap
    /\ mapped' = [NoMapped EXCEPT !.op = op, !.is_server_6x = is_server_6x,
                                  !.pre = heap, !.ret = ret]
    /\ UNCHANGED input

\* UserFieldMapper.normalize_user_response(user)
NormalizeUserResponse ==
    /\ mapped = NoMapped /\ input.kind = "user"
    /\ LET r == normalize_user_response(heap, input.arg[1])
       IN  Mapped("normalize_user_response", FALSE, r, <<r.ret>>)

\* UserFieldMapper.normalize_user_request(user, is_server_6x)
NormalizeUserRequest ==
    /\ mapped = NoMapped /\ input.kind = "user"
    /\ \E is_server_6x \in BOOLEAN :
        LET r == normalize_user_request(heap, input.arg[1], is_server_6x)
        IN  Mapped("normalize_user_request", is_server_6x, r, <<r.ret>>)

\* IssueFieldMapper.normalize_issue_response(issue)
NormalizeIssueResponse ==
    /\ mapped = NoMapped /\ input.kind = "issue"
    /\ LET r == normalize_issue_response(heap, input.arg[1])
       IN  Mapped("normalize_issue_response", FALSE, r, <<r.ret>>)

\* IssueFieldMapper.normalize_issue_request(issue, is_server_6x)
NormalizeIssueRequest ==
    /\ mapped = NoMapped /\ input.kind = "issue"
    /\ \E is_server_6x \in BOOLEAN :
        LET r == normalize_issue_request(heap, input.arg[1], is_server_6x)
        IN  Mapped("normalize_issue_request", is_server_6x, r, <<r.ret>>)

\* CommentFieldMapper.normalize_comment_response(comment)
NormalizeCommentResponse ==
    /\ mapped = NoMapped /\ input.kind = "comment"
    /\ LET r == normalize_comment_response(heap, input.arg[1])
       IN  Mapped("normalize_comment_response", FALSE, r, <<r.ret>>)

\* CommentFieldMapper.normalize_comments_list(comments)
NormalizeCommentsList ==
    /\ mapped = NoMapped /\ input.kind = "comments"
    /\ LET r == normalize_comments_list(heap, input.arg)
       IN  Mapped("normalize_comments_list", FALSE, r, r.ret)

(***************************************************************************)
(* jira/comments.py: get_issue_comments and the list the API returned      *)
(***************************************************************************)

MaxComments == 2

\* The answer of jira.issue_get_comments: an exception, a value that is not
\* a dict, or a dict, with or without the key "comments" (a list of
\* comments, given by their addresses).
CommentsResponse(kind, has_comments, comments) ==
    [kind |-> kind, has_comments |-> has_comments, comments |-> comments]

\* dict.get(k)
get(d, k) == IF HasKey(d, k) THEN d[k] ELSE None

\* the slice that keeps the last limit elements
slice_from_end(s, limit) ==
    SubSeq(s, IF limit >= Len(s) THEN 1 ELSE Len(s) - limit + 1, Len(s))

\* s[:limit]
slice(s, limit) ==
    SubSeq(s, 1, IF limit >= 0
                 THEN (IF limit < Len(s) THEN limit ELSE Len(s))
                 ELSE (IF Len(s) + limit > 0 THEN Len(s) + limit ELSE 0))

\* comments.get("comments", [])[:limit]
raw_comments(resp, limit) ==
    slice(IF resp.has_comments THEN resp.comments ELSE <<>>, limit)

\* get_issue_comments, lines 42-48: the normalization in server_6x mode
normalized_comments(h, raw, is_server_6x) ==
    IF is_server_6x THEN normalize_comments_list(h, raw) ELSE Result(h, raw)

\* comment.get("author", {}) is not a dict: author.get raises
author_raises(h, c) == HasKey(h[c], "author") /\ ~IsDict(h[c]["author"])

\* comment.get("author", {})
author_of(h, c) == IF HasKey(h[c], "author") THEN h[h[c]["author"]] ELSE EmptyDict

\* get_issue_comments, lines 54-59
author_name(author) ==
    IF Truthy(get(author, "displayName")) THEN author["displayName"]
    ELSE IF Truthy(get(author, "name")) THEN author["name"]
    ELSE IF Truthy(get(author, "accountId")) THEN author["accountId"]
    ELSE "Unknown"

\* get_issue_comments, lines 61-67.  The body and the dates of the entry are
\* made by _clean_text and parse_date, which are not part of these files.
processed_comment(h, c) ==
    [id |-> get(h[c], "id"), author |-> author_name(author_of(h, c))]

\* the outcome of get_issue_comments: the heap, what it returned or raised
Outcome(h, ret, raised) == [heap |-> h, ret |-> ret, raised |-> raised]

\* get_issue_comments, lines 50-73, on the comments r.ret
processed_comments(r) ==
    IF \E i \in 1..Len(r.ret) : author_raises(r.heap, r.ret[i])
    THEN Outcome(r.heap, <<>>, "Exception")
    ELSE Outcome(r.heap,
                 [i \in 1..Len(r.ret) |-> processed_comment(r.heap, r.ret[i])],
                 "none")

\* CommentsMixin.get_issue_comments(issue_key, limit), resp being the answer
\* of the API, on a client whose mode is server_6x or not
get_issue_comments(h, resp, limit, is_server_6x) ==
    IF resp.kind # "dict" THEN Outcome(h, <<>>, "Exception")
    ELSE processed_comments(
            normalized_comments(h, raw_comments(resp, limit), is_server_6x))

\* The authors of the comments of the API.
Authors ==
    {Strip(r) : r \in [accountId : {Absent, "acc-1"}, name : {Absent, "bob"},
                       key : {Absent, "bob-key"},
                       displayName : {Absent, "", "Bob"}]}

\* What a comment has as its author: nothing (no author key), or a user.
AuthorChoices ==
    {[there |-> FALSE, user |-> EmptyDict]} \cup
    {[there |-> TRUE, user |-> u] : u \in Authors}

CommentIds == <<"10001", "10002", "10003", "10004">>
IndexOf(a) == CHOOSE j \in 1..Len(Addrs) : Addrs[j] = a

\* The heap of the comments whose authors are as: comment i at
\* Addrs[2i - 1], its author at Addrs[2i].
CommentsHeap(as) ==
    [a \in {Addrs[2 * i - 1] : i \in 1..Len(as)} \cup
           {Addrs[2 * i] : i \in {j \in 1..Len(as) : as[j].there}} |->
        IF IndexOf(a) % 2 = 1
        THEN ("id" :> CommentIds[(IndexOf(a) + 1) \div 2]) @@
             (IF as[(IndexOf(a) + 1) \div 2].there
              THEN ("author" :> Addrs[IndexOf(a) + 1]) ELSE EmptyDict)
        ELSE as[IndexOf(a) \div 2].user]

\* The lists of comments the API returns.
CommentsInit ==
    /\ mapped = NoMapped
    /\ \E n \in 0..MaxComments : \E as \in [1..n -> AuthorChoices] :
        /\ heap = CommentsHeap(as)
        /\ input = Input("comments of the API", [i \in 1..n |-> Addrs[2 * i - 1]])

\* client.get_issue_comments(issue_key, limit)
GetIssueCommentsList ==
    /\ mapped = NoMapped /\ input.kind = "comments of the API"
    /\ \E kind \in {"dict", "not dict", "exception"}, has_comments, is_server_6x \in BOOLEAN,
          limit \in -1..(MaxComments + 1) :
        \* an answer without the list is one answer, whatever the list
        /\ (kind # "dict" \/ ~has_comments) => input.arg = <<>>
        /\ kind # "dict" => has_comments /\ limit = 0 /\ ~is_server_6x
        /\ heap' = get_issue_comments(heap, CommentsResponse(kind, has_comments, input.arg),
                                      limit, is_server_6x).heap
        /\ mapped' = [op |-> "get_issue_comments", is_server_6x |-> is_server_6x,
                      pre |-> heap,
                      ret |-> get_issue_comments(heap,
                                  CommentsResponse(kind, has_comments, input.arg),
                                  limit, is_server_6x).ret,
                      raised |-> get_issue_comments(heap,
                                  CommentsResponse(kind, has_comments, input.arg),
                                  limit, is_server_6x).raised,
                      limit |-> limit,
                      resp |-> CommentsResponse(kind, has_comments, input.arg)]
    /\ UNCHANGED input

(***************************************************************************)
(* Properties of the field mappers                                         *)
(***************************************************************************)

\* the argument of the mapper call, the object it was given (as it was
\* before the call) and the object it returned
MArg == input.arg[1]
MGiven == mapped.pre[MArg]
MRet == mapped.ret[1]
MResult == heap[MRet]

\* accountId is missing or null
LacksAccountId(d) == ~HasKey(d, "accountId") \/ d["accountId"] = None
\* the key k is there with a non-empty value
Present(d, k) == HasKey(d, k) /\ Truthy(d[k])

CalledOnDict(op) == mapped.op = op /\ IsDict(MArg)

\* the identity normalize_user_response gives a user lacking accountId
IdentityFromNameThenKey ==
    /\ Present(MGiven, "name") =>
        HasKey(MResult, "accountId") /\ MResult["accountId"] = MGiven["name"]
    /\ ~Present(MGiven, "name") /\ Present(MGiven, "key") =>
        HasKey(MResult, "accountId") /\ MResult["accountId"] = MGiven["key"]
    /\ ~Present(MGiven, "name") /\ ~Present(MGiven, "key") =>
        LacksAccountId(MResult)

\* C11 as claimed: for every raw user object lacking accountId (missing or
\* null), the empty object included, normalize_user_response sets accountId
\* from name if present, else from key if present, else leaves the identity
\* absent, and the result always has an emailAddress key.
C11_UserResponseEmptyIncluded ==
    (CalledOnDict("normalize_user_response") /\ LacksAccountId(MGiven)) =>
        /\ IdentityFromNameThenKey
        /\ HasKey(MResult, "emailAddress")

\* C11, amended: for every raw user object lacking accountId,
\* normalize_user_response sets accountId from name if present, else from key
\* if present, else leaves the identity absent; the result of a non-empty
\* object has an emailAddress key (null when the object had none, its value
\* otherwise), and the empty object is returned as it is, without the key.
C11_UserResponse ==
    (CalledOnDict("normalize_user_response") /\ LacksAccountId(MGiven)) =>
        /\ IdentityFromNameThenKey
        /\ IF MGiven = EmptyDict
           THEN MRet = MArg /\ MResult = EmptyDict
           ELSE /\ HasKey(MResult, "emailAddress")
                /\ MResult["emailAddress"] =
                     IF HasKey(MGiven, "emailAddress") THEN MGiven["emailAddress"]
                     ELSE None

\* a user without accountId, name and emailAddress but with a key was mapped
C11_Witness ==
    /\ CalledOnDict("normalize_user_response")
    /\ LacksAccountId(MGiven) /\ ~Present(MGiven, "name") /\ Present(MGiven, "key")
    /\ ~HasKey(MGiven, "emailAddress")
    /\ MResult["accountId"] = "bob-key" /\ MResult["emailAddress"] = None

\* the user mapper of the direction of the issue mapper called, applied to
\* the user at address a of the heap before the call
UserMapped(a) ==
    LET u == IF mapped.op = "normalize_issue_response"
             THEN normalize_user_response(mapped.pre, a)
             ELSE normalize_user_request(mapped.pre, a, TRUE)
    IN  u.heap[u.ret]

IssueMapperActed ==
    /\ \/ CalledOnDict("normalize_issue_response")
       \/ CalledOnDict("normalize_issue_request") /\ mapped.is_server_6x
    /\ MGiven # EmptyDict

\* the issue mapper applied the user mapper to the sub-objects of fields
\* named in slots and passed every other key on with the same value
MapsUsersOf(slots) ==
    /\ DOMAIN MResult = DOMAIN MGiven
    /\ \A k \in DOMAIN MGiven \ {"fields"} : MResult[k] = MGiven[k]
    /\ HasKey(MGiven, "fields") =>
        IF IsDict(MGiven["fields"])
        THEN LET f == mapped.pre[MGiven["fields"]]
                 g == heap[MResult["fields"]]
             IN  /\ IsDict(MResult["fields"])
                 /\ DOMAIN g = DOMAIN f
                 /\ \A k \in DOMAIN f :
                        IF k \in slots /\ IsDict(f[k])
                        THEN IsDict(g[k]) /\ heap[g[k]] = UserMapped(f[k])
                        ELSE g[k] = f[k]
        ELSE MResult["fields"] = MGiven["fields"]

\* C12 as claimed: normalize_issue_response and, in server_6x mode,
\* normalize_issue_request each apply the corresponding user mapper to all
\* three of fields.assignee, fields.reporter and fields.creator when that
\* sub-object is present, and pass every other key on with the same value.
C12_IssueMapsAllThree == IssueMapperActed => MapsUsersOf(Slots)

\* C12, amended: normalize_issue_response applies the user response mapper to
\* fields.assignee, fields.reporter and fields.creator; normalize_issue_request
\* in server_6x mode applies the user request mapper to fields.assignee and
\* fields.reporter only, fields.creator being passed on as it is; every other
\* top-level key and every other key of fields keeps its value.
C12_IssueMapsUsers ==
    IssueMapperActed =>
        IF mapped.op = "normalize_issue_response"
        THEN MapsUsersOf(Slots)
        ELSE MapsUsersOf({"assignee", "reporter"})

\* an issue whose assignee, reporter and creator are all users to map was
\* given to normalize_issue_response
C12_Witness ==
    /\ CalledOnDict("normalize_issue_response")
    /\ HasKey(MGiven, "fields") /\ IsDict(MGiven["fields"])
    /\ \A k \in Slots :
        /\ HasKey(mapped.pre[MGiven["fields"]], k)
        /\ IsDict(mapped.pre[MGiven["fields"]][k])
        /\ mapped.pre[mapped.pre[MGiven["fields"]][k]] = ("name" :> "bob")
        /\ heap[heap[MResult["fields"]][k]]["accountId"] = "bob"

\* C13: normalize_user_request in server_6x mode returns a user object
\* without accountId, whose name is the input's accountId whenever the input
\* had an accountId key, every other key unchanged; in any other mode, and
\* for empty input, it returns the input unchanged.
C13_UserRequest ==
    /\ CalledOnDict("normalize_user_request") =>
        IF mapped.is_server_6x /\ MGiven # EmptyDict
        THEN /\ ~HasKey(MResult, "accountId")
             /\ HasKey(MGiven, "accountId") =>
                    HasKey(MResult, "name") /\ MResult["name"] = MGiven["accountId"]
             /\ ~HasKey(MGiven, "accountId") => MResult = MGiven
             /\ \A k \in (DOMAIN MGiven \cup DOMAIN MResult) \ {"accountId", "name"} :
                    HasKey(MGiven, k) /\ HasKey(MResult, k) /\ MResult[k] = MGiven[k]
        ELSE MRet = MArg /\ MResult = MGiven
    /\ (mapped.op = "normalize_user_request" /\ ~IsDict(MArg)) => MRet = MArg

\* a user with an accountId, a name and other keys was mapped for Server 6.x
C13_Witness ==
    /\ CalledOnDict("normalize_user_request") /\ mapped.is_server_6x
    /\ Present(MGiven, "accountId") /\ Present(MGiven, "name")
    /\ HasKey(MGiven, "displayName")
    /\ MResult["name"] = "acc-1"

\* C14: no mapper modifies its input: after the call every object that
\* existed before it (the input, its fields and every nested user) has the
\* keys and values it had before.
C14_InputNeverModified ==
    mapped.op # "none" => \A a \in DOMAIN mapped.pre : heap[a] = mapped.pre[a]

\* a mapper returned a new object that differs from the one it was given, and
\* so did a nested mapper
C14_Witness ==
    /\ mapped.op \in {"normalize_issue_request", "normalize_comments_list"}
    /\ IsDict(MArg) /\ MRet # MArg
    /\ Cardinality(DOMAIN heap) >= Cardinality(DOMAIN mapped.pre) + 3
    /\ \E a \in DOMAIN heap \ DOMAIN mapped.pre :
        \A b \in DOMAIN mapped.pre : heap[a] # mapped.pre[b]

(***************************************************************************)
(* Properties of get_issue_comments                                        *)
(***************************************************************************)

\* the comments of the API's answer, and how many get_issue_comments keeps
ApiComments == IF mapped.resp.has_comments THEN mapped.resp.comments ELSE <<>>
Kept == IF mapped.limit < Len(ApiComments) THEN mapped.limit ELSE Len(ApiComments)

\* the author of the i-th comment of the API, as the API gave it
ApiAuthor(i) ==
    IF HasKey(mapped.pre[ApiComments[i]], "author")
    THEN mapped.pre[mapped.pre[ApiComments[i]]["author"]]
    ELSE EmptyDict

\* the first non-empty of displayName, name and the identity key of the
\* author a, else "Unknown"; the identity key is accountId and, in
\* server_6x mode, where users have no accountId, the user's key
FirstNonEmpty(a) ==
    IF Present(a, "displayName") THEN a["displayName"]
    ELSE IF Present(a, "name") THEN a["name"]
    ELSE IF Present(a, "accountId") THEN a["accountId"]
    ELSE IF mapped.is_server_6x /\ Present(a, "key") THEN a["key"]
    ELSE "Unknown"

\* C15: for every limit >= 0 and every API comment list of length n,
\* get_issue_comments returns exactly min(limit, n) entries, those of the
\* first min(limit, n) comments in the order of the API (only these are
\* normalized: the list is truncated first); the author of each entry is the
\* first non-empty of the author's displayName, name and identity key, and
\* otherwise the literal "Unknown".
C15_CommentsTruncatedInOrder ==
    (mapped.op = "get_issue_comments" /\ mapped.resp.kind = "dict" /\ mapped.limit >= 0) =>
        /\ mapped.raised = "none"
        /\ Len(mapped.ret) = Kept
        /\ \A i \in 1..Kept :
            /\ mapped.ret[i].id = mapped.pre[ApiComments[i]]["id"]
            /\ mapped.ret[i].author = FirstNonEmpty(ApiAuthor(i))
        /\ Cardinality(DOMAIN heap \ DOMAIN mapped.pre) <= 2 * Kept

\* two comments were returned by the API, the limit was 1 and the mode
\* server_6x, and the one entry returned is that of the first comment, whose
\* author has only a key
C15_Witness ==
    /\ mapped.op = "get_issue_comments" /\ mapped.resp.kind = "dict"
    /\ mapped.is_server_6x /\ mapped.limit = 1 /\ Len(ApiComments) = 2
    /\ ApiAuthor(1) = ("key" :> "bob-key")
    /\ mapped.ret = <<[id |-> "10001", author |-> "bob-key"]>>
    /\ Cardinality(DOMAIN heap \ DOMAIN mapped.pre) = 2

(***************************************************************************)
(* Properties of the authentication check                                  *)
(***************************************************************************)

\* The config is_auth_configured was called on, and what it returned.
Asked == configured # {}
Answer == CHOOSE b \in configured : TRUE

\* The credentials that are complete for an auth_type.
CompleteOAuth(o) ==
    /\ HasOAuth(o)
    /\ o.cloud_id
    /\ \/ /\ o.type = "OAuthConfig"
          /\ o.client_id /\ o.client_secret /\ o.redirect_uri /\ o.scope
       \/ o.type = "OAuthConfig" /\ ~o.client_id /\ ~o.client_secret
       \/ o.type = "BYOAccessTokenOAuthConfig" /\ o.access_token

Complete(c) ==
    IF c.auth_type = "oauth" THEN CompleteOAuth(c.oauth_config)
    ELSE IF c.auth_type = "pat" THEN Truthy(c.personal_token)
    ELSE IF c.auth_type = "basic"
    THEN /\ Truthy(c.username)
         /\ \/ Truthy(c.api_token)
            \/ c.jira_mode = "server_6x" /\ Truthy(c.jira_password)
    ELSE FALSE

\* C19: every config from_env returns has is_auth_configured() true.
\* from_env chooses "oauth" as soon as an OAuth bundle is present and never
\* looks inside it, so a partially filled bundle is returned.
C19_FromEnvAlwaysConfigured ==
    Asked => Answer

\* C20: is_auth_configured() is true exactly when the credentials are
\* complete for the auth_type; for oauth that includes a cloud_id.  The
\* code accepts an OAuthConfig without client_id and client_secret whatever
\* its cloud_id.
C20_AuthConfiguredExactly ==
    Asked => (Answer <=> Complete(Config))

(***************************************************************************)
(* Properties of the TLS policy and the adapters                           *)
(***************************************************************************)

\* The call of configure_ssl_verification that has returned or raised.
SslConfigured == tls.op = "configure_ssl_verification"

\* JIRA_TLS_INSECURE is set to true, 1 or yes, in any letter case
InsecureOverride(a) == a.insecure \in {"true", "TRUE", "1", "Yes"}
InsecureEnv(e) == e.JIRA_TLS_INSECURE \in {"true", "TRUE", "1", "Yes"}
CaFileGiven(a) == a.ca_file \notin {None, ""}
EncryptedKey(a) ==
    /\ a.client_cert # None /\ a.client_key # None
    /\ a.client_key_password \notin {None, ""}

\* The relaxed adapter is mounted for the domain of the URL.
RelaxedMounted(s, u) ==
    \A sch \in {Https, HttpPlain} :
        /\ <<sch>> \o netloc(u) \in DOMAIN s.adapters
        /\ s.adapters[<<sch>> \o netloc(u)] = "SSLIgnoreAdapter"

\* C17: a call of configure_ssl_verification raises only for an encrypted
\* private key, and a call that returns has resolved the TLS policy in this
\* order: the insecure override set, or else ssl_verify false, mounts the
\* relaxed adapter and leaves the verify setting alone whatever the CA file;
\* or else a CA file that is given and exists becomes the verify setting; or
\* else the verify setting and the adapters stay as they were.
C17_TlsPolicyOrder ==
    SslConfigured =>
        /\ tls.raised = (IF EncryptedKey(tls.args) THEN "ValueError" ELSE "none")
        /\ tls.raised = "none" =>
            IF InsecureOverride(tls.args) \/ ~tls.args.ssl_verify
            THEN /\ RelaxedMounted(session, tls.args.url)
                 /\ session.verify = tls.pre.verify
            ELSE IF CaFileGiven(tls.args) /\ tls.args.exists
            THEN /\ session.verify = tls.args.ca_file
                 /\ session.adapters = tls.pre.adapters
            ELSE /\ session.verify = tls.pre.verify
                 /\ session.adapters = tls.pre.adapters

\* C17 witness: the override is set while ssl_verify is true and an
\* existing CA file is given, and the relaxed adapter has been mounted.
C17_Witness ==
    /\ SslConfigured /\ tls.raised = "none"
    /\ InsecureOverride(tls.args) /\ tls.args.ssl_verify
    /\ CaFileGiven(tls.args) /\ tls.args.exists
    /\ RelaxedMounted(session, tls.args.url)
    /\ ~RelaxedMounted(tls.pre, tls.args.url)
    /\ session.verify = "True"

\* C18: a call configuring a service URL leaves the adapters mounted for
\* every other network location as they were, and a request to another
\* network location is sent as the session would have sent it before the
\* call: same adapter, same verification, same URL.  The adapters are
\* mounted on scheme://netloc without a closing "/", and a session picks
\* an adapter by the prefix of the URL, so a host whose name goes on after
\* the configured one gets the adapter too.
C18_AdaptersScopedPerDomain ==
    /\ tls.op # "none" =>
          \A p \in DOMAIN tls.pre.adapters :
              netloc(p) # netloc(tls.args.url) =>
                  /\ p \in DOMAIN session.adapters
                  /\ session.adapters[p] = tls.pre.adapters[p]
    /\ (wire.op = "send" /\ netloc(wire.url) # netloc(tls.args.url)) =>
          wire = send(tls.pre, wire.url)

\* A request of a constructed client has been sent to the domain of its
\* base URL.
ToBaseDomain == wire.op = "send" /\ StartsWith(wire.url, Chars(Config.url))

\* The TLS policy of the client's domain is the relaxed one.
RelaxedPolicy == InsecureEnv(env) \/ ~Config.ssl_verify

\* C23: every request of a server_6x client to the domain of its base URL
\* has "/rest/api/3/" rewritten to "/rest/api/2/" and is sent under the TLS
\* policy of the domain: unverified when the policy is relaxed, and
\* verified as the session is set to otherwise.  configure_api_version
\* mounts the APIv2Adapter on the prefix configure_ssl_verification has
\* mounted the SSLIgnoreAdapter on, and a prefix has one adapter.
C23_RewrittenUnderTlsPolicy ==
    (ToBaseDomain /\ Config.jira_mode = "server_6x") =>
        /\ wire.sent = replace(wire.url, V3, V2)
        /\ wire.verify = (IF RelaxedPolicy THEN "False" ELSE session.verify)

(***************************************************************************)
(* Properties of callers sharing a client                                  *)
(***************************************************************************)
\* the calls the callers have made
CallsMade == {callers[t].op : t \in CallerIds}

\* C25: when the calls of two callers sharing a client, two refreshes or a
\* refresh and a logout, have run one after another, the cached token and
\* the JSESSIONID of the cookie store agree; they disagree only after calls
\* that overlapped.  _logout clears the cached token and leaves the cookie
\* store alone, so a refresh followed by a logout ends with the two apart.
C25_ApartOnlyAfterOverlap ==
    (pc = "ready" /\ Quiescent /\ ~overlapped) => jar = cookie_session

\* Two refreshes that overlapped have ended with the cached token and the
\* cookie store apart.
RefreshesRaced ==
    /\ Quiescent /\ overlapped /\ CallsMade = {"refresh"}
    /\ jar # cookie_session

\* Two refreshes that ran one after another end with the cached token and
\* the cookie store in agreement.
RefreshesInTurnAgree ==
    (pc = "ready" /\ Quiescent /\ ~overlapped /\ CallsMade \subseteq {"none", "refresh"})
        => jar = cookie_session

\* C26: every call to the session endpoint, the POST of an establish and
\* the DELETE of a logout, is sent under the TLS policy of the client:
\* unverified when the policy is relaxed, verified as the session is set to
\* otherwise (against the CA bundle when one is configured), and with the
\* client certificate of the session.  The calls are made with the
\* requests module and verify=ssl_verify alone.
C26_EndpointUnderTlsPolicy ==
    res.raised = "none" =>
        \A i \in 1..Len(last.endpoint) :
            /\ last.endpoint[i].verify =
                  (IF RelaxedPolicy THEN "False" ELSE session.verify)
            /\ last.endpoint[i].cert = session.cert

\* C16: a client whose config has client_key_password set together with
\* client_cert and client_key is never constructed: the construction raises
\* a configuration error (ValueError) with no request sent and no client
\* certificate attached to the session.  With auth_type oauth the OAuth
\* session is configured first, and its failure is raised as an
\* authentication error before the TLS settings are looked at.
C16_EncryptedKeyIsConfigError ==
    (last.op = "construct" /\ EncryptedKey(Config)) =>
        /\ pc = "failed"
        /\ last.raised = "ValueError"
        /\ last.est = <<>> /\ last.myself = 0
        /\ session.cert = <<>>

(***************************************************************************)
(* Specifications                                                          *)
(***************************************************************************)

IdleEnv == env = NoEnv /\ res = Pending
IdleUrl == url = <<>> /\ force_v2 = FALSE /\ sent = <<>> /\ normalized = <<>>
IdleClient == ClientInit
IdlePaged == PagedInit
IdleMapper == MapperIdle
IdleAuth == AuthIdle
IdleTls == TlsIdle
IdleCallers == CallersIdle

\* JiraConfig.from_env over every environment
SpecEnvInit == EnvInit /\ AuthIdle /\ IdleUrl /\ IdleClient /\ IdlePaged /\ IdleMapper /\ IdleTls /\ IdleCallers
SpecEnvNext ==
    \/ FromEnv /\ UNCHANGED <<urlVars, clientVars, pagedVars, mapperVars, authVars, tlsVars, callerVars>>
    \/ IsAuthConfigured /\ UNCHANGED <<urlVars, clientVars, pagedVars, mapperVars, tlsVars, callerVars>>
SpecEnv == SpecEnvInit /\ [][SpecEnvNext]_vars

\* the version rewrite over every URL
SpecUrlInit == UrlInit /\ IdleEnv /\ IdleClient /\ IdlePaged /\ IdleMapper /\ IdleTls /\ IdleAuth /\ IdleCallers
SpecUrlNext ==
    \/ AdapterSend /\ UNCHANGED <<envVars, clientVars, pagedVars, mapperVars, authVars, tlsVars, callerVars>>
    \/ NormalizeApiPath /\ UNCHANGED <<envVars, clientVars, pagedVars, mapperVars, authVars, tlsVars, callerVars>>
SpecUrl == SpecUrlInit /\ [][SpecUrlNext]_vars

\* a client: its configuration, its construction and every sequence of calls
SpecClientInit == env \in ClientEnvs /\ res = Pending /\ ClientInit /\ IdleUrl /\ IdlePaged /\ IdleMapper /\ IdleTls /\ IdleAuth /\ IdleCallers
SpecClientNext ==
    \/ FromEnv /\ UNCHANGED <<urlVars, clientVars, pagedVars, mapperVars, authVars, tlsVars, callerVars>>
    \/ Construct /\ UNCHANGED <<urlVars, pagedVars, mapperVars, authVars, tls, wire, callerVars>>
    \/ EstablishCookieSession /\ UNCHANGED <<urlVars, pagedVars, mapperVars, authVars, tlsVars, callerVars>>
    \/ RefreshCookieSession /\ UNCHANGED <<urlVars, pagedVars, mapperVars, authVars, tlsVars, callerVars>>
    \/ Logout /\ UNCHANGED <<urlVars, pagedVars, mapperVars, authVars, tlsVars, callerVars>>
    \/ ValidateAuthentication /\ UNCHANGED <<urlVars, pagedVars, mapperVars, authVars, tlsVars, callerVars>>
    \/ GetIssueComments /\ UNCHANGED <<urlVars, pagedVars, mapperVars, authVars, tlsVars, callerVars>>
    \/ GetComment /\ UNCHANGED <<urlVars, pagedVars, mapperVars, authVars, tlsVars, callerVars>>
    \/ AddComment /\ UNCHANGED <<urlVars, pagedVars, mapperVars, authVars, tlsVars, callerVars>>
    \/ EditComment /\ UNCHANGED <<urlVars, pagedVars, mapperVars, authVars, tlsVars, callerVars>>
    \/ CreateVersion /\ UNCHANGED <<urlVars, pagedVars, mapperVars, authVars, tlsVars, callerVars>>
SpecClient == SpecClientInit /\ [][SpecClientNext]_vars

\* a client and one call of get_paged on it
SpecPagedInit == env \in PagedEnvs /\ res = Pending /\ ClientInit /\ IdleUrl /\ PagedInit /\ IdleMapper /\ IdleTls /\ IdleAuth /\ IdleCallers
SpecPagedNext ==
    \/ FromEnv /\ UNCHANGED <<urlVars, clientVars, pagedVars, mapperVars, authVars, tlsVars, callerVars>>
    \/ Construct /\ UNCHANGED <<urlVars, pagedVars, mapperVars, authVars, tls, wire, callerVars>>
    \/ GetPaged /\ UNCHANGED <<urlVars, mapperVars, authVars, tlsVars, callerVars>>
    \/ GetPagedRequest /\ UNCHANGED <<urlVars, mapperVars, authVars, tlsVars, callerVars>>
SpecPaged == SpecPagedInit /\ [][SpecPagedNext]_vars

\* one call of a field mapper on every input
SpecMapperInit == MapperInit /\ IdleEnv /\ IdleUrl /\ IdleClient /\ IdlePaged /\ IdleTls /\ IdleAuth /\ IdleCallers
SpecMapperNext ==
    \/ NormalizeUserResponse /\ UNCHANGED <<envVars, urlVars, clientVars, pagedVars, authVars, tlsVars, callerVars>>
    \/ NormalizeUserRequest /\ UNCHANGED <<envVars, urlVars, clientVars, pagedVars, authVars, tlsVars, callerVars>>
    \/ NormalizeIssueResponse /\ UNCHANGED <<envVars, urlVars, clientVars, pagedVars, authVars, tlsVars, callerVars>>
    \/ NormalizeIssueRequest /\ UNCHANGED <<envVars, urlVars, clientVars, pagedVars, authVars, tlsVars, callerVars>>
    \/ NormalizeCommentResponse /\ UNCHANGED <<envVars, urlVars, clientVars, pagedVars, authVars, tlsVars, callerVars>>
    \/ NormalizeCommentsList /\ UNCHANGED <<envVars, urlVars, clientVars, pagedVars, authVars, tlsVars, callerVars>>
SpecMapper == SpecMapperInit /\ [][SpecMapperNext]_vars

\* one call of get_issue_comments on every list of comments of the API
SpecCommentsInit == CommentsInit /\ IdleEnv /\ IdleUrl /\ IdleClient /\ IdlePaged /\ IdleTls /\ IdleAuth /\ IdleCallers
SpecCommentsNext ==
    GetIssueCommentsList /\ UNCHANGED <<envVars, urlVars, clientVars, pagedVars, authVars, tlsVars, callerVars>>
SpecComments == SpecCommentsInit /\ [][SpecCommentsNext]_vars

\* is_auth_configured on every JiraConfig
SpecAuthInit == AuthInit /\ IdleUrl /\ IdleClient /\ IdlePaged /\ IdleMapper /\ IdleTls /\ IdleCallers
SpecAuthNext ==
    IsAuthConfigured /\ UNCHANGED <<urlVars, clientVars, pagedVars, mapperVars, tlsVars, callerVars>>
SpecAuth == SpecAuthInit /\ [][SpecAuthNext]_vars

\* the TLS policy and the adapters of a session, then one request through it
SpecTlsInit == TlsInit /\ IdleEnv /\ IdleUrl /\ IdleClient /\ IdlePaged /\ IdleMapper /\ IdleAuth /\ IdleCallers
SpecTlsNext ==
    \/ ConfigureSslVerification /\ UNCHANGED <<envVars, urlVars, clientVars, pagedVars, mapperVars, authVars, callerVars>>
    \/ ConfigureApiVersion /\ UNCHANGED <<envVars, urlVars, clientVars, pagedVars, mapperVars, authVars, callerVars>>
    \/ Send /\ UNCHANGED <<envVars, urlVars, clientVars, pagedVars, mapperVars, authVars, callerVars>>
SpecTls == SpecTlsInit /\ [][SpecTlsNext]_vars

\* a client constructed from every combination of TLS settings
SpecTlsClientInit == env \in TlsEnvs /\ res = Pending /\ ClientInit /\ IdleUrl /\ IdlePaged /\ IdleMapper /\ IdleTls /\ IdleAuth /\ IdleCallers
SpecTlsClientNext ==
    \/ FromEnv /\ UNCHANGED <<urlVars, clientVars, pagedVars, mapperVars, authVars, tlsVars, callerVars>>
    \/ Construct /\ UNCHANGED <<urlVars, pagedVars, mapperVars, authVars, tls, wire, callerVars>>
SpecTlsClient == SpecTlsClientInit /\ [][SpecTlsClientNext]_vars

\* a client, its construction and every sequence of refresh and logout calls
SpecSessionInit == env \in ClientEnvs /\ res = Pending /\ ClientInit /\ IdleUrl /\ IdlePaged /\ IdleMapper /\ IdleTls /\ IdleAuth /\ IdleCallers
SpecSessionNext ==
    \/ FromEnv /\ UNCHANGED <<urlVars, clientVars, pagedVars, mapperVars, authVars, tlsVars, callerVars>>
    \/ Construct /\ UNCHANGED <<urlVars, pagedVars, mapperVars, authVars, tls, wire, callerVars>>
    \/ RefreshCookieSession /\ UNCHANGED <<urlVars, pagedVars, mapperVars, authVars, tlsVars, callerVars>>
    \/ Logout /\ UNCHANGED <<urlVars, pagedVars, mapperVars, authVars, tlsVars, callerVars>>
SpecSession == SpecSessionInit /\ [][SpecSessionNext]_vars

\* a client constructed under every TLS policy, and one request of it
SpecTransportInit == env \in TransportEnvs /\ res = Pending /\ ClientInit /\ IdleUrl /\ IdlePaged /\ IdleMapper /\ IdleTls /\ IdleAuth /\ IdleCallers
SpecTransportNext ==
    \/ FromEnv /\ UNCHANGED <<urlVars, clientVars, pagedVars, mapperVars, authVars, tlsVars, callerVars>>
    \/ Construct /\ UNCHANGED <<urlVars, pagedVars, mapperVars, authVars, tls, wire, callerVars>>
    \/ ClientRequest /\ UNCHANGED <<urlVars, pagedVars, mapperVars, authVars, callerVars>>
SpecTransport == SpecTransportInit /\ [][SpecTransportNext]_vars

\* a cookie client under every TLS policy and its calls to the session endpoint
SpecEndpointInit == env \in EndpointEnvs /\ res = Pending /\ ClientInit /\ IdleUrl /\ IdlePaged /\ IdleMapper /\ IdleTls /\ IdleAuth /\ IdleCallers
SpecEndpointNext ==
    \/ FromEnv /\ UNCHANGED <<urlVars, clientVars, pagedVars, mapperVars, authVars, tlsVars, callerVars>>
    \/ Construct /\ UNCHANGED <<urlVars, pagedVars, mapperVars, authVars, tls, wire, callerVars>>
    \/ EstablishCookieSession /\ UNCHANGED <<urlVars, pagedVars, mapperVars, authVars, tlsVars, callerVars>>
    \/ Logout /\ UNCHANGED <<urlVars, pagedVars, mapperVars, authVars, tlsVars, callerVars>>
SpecEndpoint == SpecEndpointInit /\ [][SpecEndpointNext]_vars

\* two callers sharing a client, each making one call: a refresh or a logout
SpecCallersInit == env \in CallerEnvs /\ res = Pending /\ ClientInit /\ IdleUrl /\ IdlePaged /\ IdleMapper /\ IdleTls /\ IdleAuth /\ IdleCallers
SpecCallersNext ==
    \/ FromEnv /\ UNCHANGED <<urlVars, clientVars, pagedVars, mapperVars, authVars, tlsVars, callerVars>>
    \/ Construct /\ UNCHANGED <<urlVars, pagedVars, mapperVars, authVars, tls, wire, callerVars>>
    \/ BeginRefresh /\ UNCHANGED <<urlVars, pagedVars, mapperVars, authVars, tlsVars>>
    \/ PostSession /\ UNCHANGED <<urlVars, pagedVars, mapperVars, authVars, tlsVars>>
    \/ StoreToken /\ UNCHANGED <<urlVars, pagedVars, mapperVars, authVars, tlsVars>>
    \/ ReadToken /\ UNCHANGED <<urlVars, pagedVars, mapperVars, authVars, tlsVars>>
    \/ SetCookie /\ UNCHANGED <<urlVars, pagedVars, mapperVars, authVars, tlsVars>>
    \/ BeginLogout /\ UNCHANGED <<urlVars, pagedVars, mapperVars, authVars, tlsVars>>
    \/ DeleteSession /\ UNCHANGED <<urlVars, pagedVars, mapperVars, authVars, tlsVars>>
    \/ ClearToken /\ UNCHANGED <<urlVars, pagedVars, mapperVars, authVars, tlsVars>>
SpecCallers == SpecCallersInit /\ [][SpecCallersNext]_vars

====
